---- MODULE Spec2Model ----
(***************************************************************************)
(* Verification model of the RS485 master firmware (master_ttgo).          *)
(*                                                                         *)
(* Part A  ModbusAPI.cpp : the synchronous request bridge                  *)
(*         modbus_api_read_registers over the asynchronous ModbusClientRTU *)
(*         callbacks (specifications SpecApi, FairSpecApi).                *)
(* Part B  main.cpp      : discovery, registry (slaveList), schedule       *)
(*         (scheduleList), EventManager, DataFormatter and the error       *)
(*         callback handleError (specifications Spec, FairSpec).           *)
(***************************************************************************)
EXTENDS Integers, Sequences, FiniteSets, TLC

(***************************************************************************)
(* Bounds of the model (not program constants).                            *)
(***************************************************************************)
\* number of readRegisters calls the single caller makes
MaxCalls == 6
\* size of the pool xSemaphoreCreateBinary allocates handles from
NumHandles == 1
\* requests the transport (ModbusClientRTU) accepts before addRequest fails
MaxInFlight == 1

(***************************************************************************)
(* Program constants.                                                      *)
(***************************************************************************)
\* xQueueCreate(5, sizeof(ApiRequest))
ReqQueueLen == 5
\* xQueueCreate(5, sizeof(ModbusApiResult))
RespQueueLen == 5
\* #define MODBUS_API_MAX_DATA_SIZE 128
MODBUS_API_MAX_DATA_SIZE == 128

VARIABLES
    \* ---- Part A: ModbusAPI.cpp ----
    sems,               \* every semaphore handle: "free" (not allocated), "empty" or "given"
    queueApiRequests,   \* FIFO of ApiRequest  [sem, from]
    queueApiResponses,  \* FIFO of ModbusApiResult, shared by all calls
    mbQueue,            \* requests accepted by MB.addRequest, not yet answered
    apiPc,              \* position of the caller inside modbus_api_read_registers
    completion_sem,     \* the caller's local completion_sem (0 = NULL / none)
    result,             \* the caller's local ModbusApiResult; what the call returns
    nCalls,             \* number of calls started so far; the running call's number
    exitPath,           \* history: the path on which the current call returned
    reported,           \* history: what the transport or worker reported for the running call
    \* ---- Part B: main.cpp ----
    slaveList,               \* std::vector<ModbusSlaveParam>: the registry
    scheduleList,            \* std::vector<SensorSchedule>: the schedule
    schedulerMutex,          \* holder of schedulerMutex, "free" when nobody holds it
    requestBuffer,           \* ModbusRequestInfo requestBuffer[MAX_REQUESTS]
    requestHead,             \* write index of the ring
    requestToken,            \* EventManager's local token counter (uint32_t)
    queueEventos_Peripheral, \* discovery events to the EventManager
    queueEventos_Scheduler,  \* sampling events to the EventManager
    queueRespuestas,         \* responses from handleData to the DataFormatter
    queueSensorDataPayload,  \* formatted samples to the aggregator
    mbRequests,              \* requests accepted by MB.addRequest (main.cpp's client)
    discoveryPc,             \* initialDiscoveryTask: devices asked so far; DiscoveryDone after initScheduler
    errorPc,                 \* handleError waiting for schedulerMutex: [slave, idx of its request], or NotWaiting
    now,                     \* millis()
    literalShared,           \* build: the library's TIMEOUT text is the very literal of handleError
    failRun,                 \* history: device -> sampling failures since its last success
    discoverReturn,          \* history: device -> what discoverDeviceSensors returned for it: "true", "false", "none" before the call
    \* ---- functions applied to drawn inputs ----
    fnPc,                    \* "input" before the function is applied, then the function's name
    fnIn,                    \* the arguments
    fnOut                    \* the result

apiVars == <<sems, queueApiRequests, queueApiResponses, mbQueue, apiPc,
             completion_sem, result, nCalls, exitPath, reported>>

mainVars == <<slaveList, scheduleList, schedulerMutex, requestBuffer, requestHead,
              requestToken, queueEventos_Peripheral, queueEventos_Scheduler,
              queueRespuestas, queueSensorDataPayload, mbRequests, discoveryPc,
              errorPc, now, literalShared, failRun, discoverReturn>>

fnVars == <<fnPc, fnIn, fnOut>>

vars == <<apiVars, mainVars, fnVars>>

(***************************************************************************)
(* Part A.  ModbusAPI.cpp                                                  *)
(***************************************************************************)
Handles == 1..NumHandles

\* enum class ModbusApiError
ModbusApiError == {"SUCCESS", "ERROR_TIMEOUT", "ERROR_MODBUS_TIMEOUT",
                   "ERROR_MODBUS_EXCEPTION", "ERROR_QUEUE_FULL",
                   "ERROR_INVALID_PARAMS", "ERROR_NOT_FOUND", "ERROR_INTERNAL"}

\* Errors the transport hands to the error callback: its timeout, or any
\* other error (a Modbus exception, a CRC error, ...).
TransportErrors == {"TIMEOUT", "ILLEGAL_DATA_ADDRESS"}

\* Raw FC03 responses the transport can deliver: serverID, FC, byteCount, data.
Responses == { <<1, 3, 2, 17, 34>> }

\* Values an uninitialised data_len / data[] of the local result can hold.
UninitData == { <<>>, <<255>> }

\* struct ModbusApiResult.  "from" is history: whose request produced this
\* result: "this" (the running call), "earlier" (a call that has returned
\* already) or "local" (made by the caller itself).
ApiResult(code, data, from) == [error_code |-> code, data |-> data, from |-> from]
NoResult == ApiResult("UNSET", <<>>, "local")

\* History bookkeeping at the start of a call: everything still queued
\* belongs to an earlier call from now on.
Earlier(q) == [i \in DOMAIN q |-> [q[i] EXCEPT !.from = "earlier"]]

Min(a, b) == IF a < b THEN a ELSE b

\* handle_data_callback, lines 25-33: payload without the 3 header bytes,
\* cut to MODBUS_API_MAX_DATA_SIZE.
DataResult(response, from) ==
    LET payload_len == Len(response) - 3
        data_len    == Min(payload_len, MODBUS_API_MAX_DATA_SIZE)
    IN  ApiResult("SUCCESS", SubSeq(response, 4, 3 + data_len), from)

\* handle_error_callback, lines 46-55: the error text is searched for
\* "TIMEOUT"; every other error is reported as an exception.
ErrorResult(error, from) ==
    ApiResult(IF error = "TIMEOUT" THEN "ERROR_MODBUS_TIMEOUT"
                                   ELSE "ERROR_MODBUS_EXCEPTION", <<>>, from)

\* The error codes only the two transport callbacks produce.
TransportCodes == {"SUCCESS", "ERROR_MODBUS_TIMEOUT", "ERROR_MODBUS_EXCEPTION"}

\* xQueueSend(queue, &item, 0): dropped when the queue is full.
QueueSend(q, item, cap) == IF Len(q) < cap THEN Append(q, item) ELSE q

\* xSemaphoreGive(sem).  Giving a deleted semaphore is a use after free: it
\* has no effect on any live signal unless the handle was allocated again,
\* in which case it raises the signal of whoever owns the handle now.
Give(s, h) == IF s[h] = "free" THEN s ELSE [s EXCEPT ![h] = "given"]

\* vSemaphoreDelete(sem)
SemDelete(s, h) == [s EXCEPT ![h] = "free"]

InitApi ==
    /\ sems = [h \in Handles |-> "free"]
    /\ queueApiRequests = <<>>
    /\ queueApiResponses = <<>>
    /\ mbQueue = <<>>
    /\ apiPc = "idle"
    /\ completion_sem = 0
    /\ result = NoResult
    /\ nCalls = 0
    /\ exitPath = "none"
    /\ reported = NoResult

\* modbus_api_read_registers, step 1: xSemaphoreCreateBinary, NULL check.
ApiCall ==
    /\ apiPc \in {"idle", "returned"}
    /\ nCalls < MaxCalls
    /\ nCalls' = nCalls + 1
    /\ queueApiRequests' = Earlier(queueApiRequests)
    /\ queueApiResponses' = Earlier(queueApiResponses)
    /\ mbQueue' = Earlier(mbQueue)
    /\ reported' = NoResult
    /\ IF \E h \in Handles : sems[h] = "free"
       THEN \E h \in Handles :
              /\ sems[h] = "free"
              /\ sems' = [sems EXCEPT ![h] = "empty"]
              /\ completion_sem' = h
              /\ apiPc' = "created"
              /\ result' = NoResult
              /\ exitPath' = "none"
       ELSE /\ \E g \in UninitData : result' = ApiResult("ERROR_INTERNAL", g, "local")
            /\ apiPc' = "returned"
            /\ exitPath' = "internal"
            /\ completion_sem' = 0
            /\ UNCHANGED sems
    /\ UNCHANGED <<mainVars, fnVars>>

\* modbus_api_read_registers, steps 2-3: xQueueSend to the worker's queue;
\* when the queue stays full the semaphore is deleted and ERROR_QUEUE_FULL
\* is returned (data_len is left uninitialised).
ApiSubmit ==
    /\ apiPc = "created"
    /\ IF Len(queueApiRequests) < ReqQueueLen
       THEN /\ queueApiRequests' =
                 Append(queueApiRequests, [sem |-> completion_sem, from |-> "this"])
            /\ apiPc' = "waiting"
            /\ UNCHANGED <<sems, completion_sem, result, exitPath>>
       ELSE /\ sems' = SemDelete(sems, completion_sem)
            /\ \E g \in UninitData : result' = ApiResult("ERROR_QUEUE_FULL", g, "local")
            /\ apiPc' = "returned"
            /\ exitPath' = "submitFail"
            /\ completion_sem' = 0
            /\ UNCHANGED queueApiRequests
    /\ UNCHANGED <<queueApiResponses, mbQueue, nCalls, reported>>
    /\ UNCHANGED <<mainVars, fnVars>>

\* modbus_api_read_registers, steps 4-5, xSemaphoreTake returned pdTRUE:
\* the head of the shared response queue becomes the result (the local
\* result keeps its uninitialised content when the queue is empty).
ApiTakeSignalled ==
    /\ apiPc = "waiting"
    /\ sems[completion_sem] = "given"
    /\ IF queueApiResponses # <<>>
       THEN /\ result' = Head(queueApiResponses)
            /\ queueApiResponses' = Tail(queueApiResponses)
       ELSE /\ \E g \in UninitData : result' = ApiResult("UNSET", g, "local")
            /\ UNCHANGED queueApiResponses
    /\ sems' = SemDelete(sems, completion_sem)
    /\ completion_sem' = 0
    /\ apiPc' = "returned"
    /\ exitPath' = "signalled"
    /\ UNCHANGED <<queueApiRequests, mbQueue, nCalls, reported>>
    /\ UNCHANGED <<mainVars, fnVars>>

\* Mutant of ApiWaitExpires: the timeout path returns without vSemaphoreDelete.
ApiWaitExpires_Leak ==
    /\ apiPc = "waiting"
    /\ sems[completion_sem] = "empty"
    /\ result' = ApiResult("ERROR_TIMEOUT", <<>>, "local")
    /\ completion_sem' = 0
    /\ apiPc' = "returned"
    /\ exitPath' = "waitExpired"
    /\ UNCHANGED <<sems, queueApiRequests, queueApiResponses, mbQueue, nCalls,
                   reported>>
    /\ UNCHANGED <<mainVars, fnVars>>

\* Mutant of ApiWaitExpires: the timeout path sets error_code only and
\* leaves data_len as it was.
ApiWaitExpires_NoLen ==
    /\ apiPc = "waiting"
    /\ sems[completion_sem] = "empty"
    /\ \E g \in UninitData : result' = ApiResult("ERROR_TIMEOUT", g, "local")
    /\ sems' = SemDelete(sems, completion_sem)
    /\ completion_sem' = 0
    /\ apiPc' = "returned"
    /\ exitPath' = "waitExpired"
    /\ UNCHANGED <<queueApiRequests, queueApiResponses, mbQueue, nCalls,
                   reported>>
    /\ UNCHANGED <<mainVars, fnVars>>

\* Mutant of ApiWaitExpires: xSemaphoreTake with portMAX_DELAY never times out.
ApiWaitExpires_Forever ==
    /\ apiPc = "waiting"
    /\ sems[completion_sem] = "empty"
    /\ FALSE
    /\ UNCHANGED vars

\* modbus_api_read_registers, steps 4-5, xSemaphoreTake timed out.
ApiWaitExpires ==
    /\ apiPc = "waiting"
    /\ sems[completion_sem] = "empty"
    /\ result' = ApiResult("ERROR_TIMEOUT", <<>>, "local")
    /\ sems' = SemDelete(sems, completion_sem)
    /\ completion_sem' = 0
    /\ apiPc' = "returned"
    /\ exitPath' = "waitExpired"
    /\ UNCHANGED <<queueApiRequests, queueApiResponses, mbQueue, nCalls,
                   reported>>
    /\ UNCHANGED <<mainVars, fnVars>>

\* What a delivery (callback or worker report) does: xQueueSend with no wait
\* on the shared response queue, then xSemaphoreGive on the token.
Deliver(res, token) ==
    /\ queueApiResponses' = QueueSend(queueApiResponses, res, RespQueueLen)
    /\ sems' = Give(sems, token)
    /\ reported' = IF res.from = "this" THEN res ELSE reported

\* modbus_worker_task: one request taken from the queue and handed to
\* MB.addRequest with the semaphore handle as token; when addRequest
\* refuses it, ERROR_QUEUE_FULL is delivered at once.
WorkerTask ==
    /\ queueApiRequests # <<>>
    /\ LET request == Head(queueApiRequests) IN
       /\ queueApiRequests' = Tail(queueApiRequests)
       /\ \/ /\ Len(mbQueue) < MaxInFlight
             /\ mbQueue' = Append(mbQueue, [token |-> request.sem, from |-> request.from])
             /\ UNCHANGED <<sems, queueApiResponses, reported>>
          \/ /\ Deliver(ApiResult("ERROR_QUEUE_FULL", <<>>, request.from), request.sem)
             /\ UNCHANGED mbQueue
    /\ UNCHANGED <<apiPc, completion_sem, result, nCalls, exitPath>>
    /\ UNCHANGED <<mainVars, fnVars>>

\* handle_data_callback: the transport answers its oldest request with data.
DataCallback ==
    /\ mbQueue # <<>>
    /\ \E response \in Responses :
         Deliver(DataResult(response, Head(mbQueue).from), Head(mbQueue).token)
    /\ mbQueue' = Tail(mbQueue)
    /\ UNCHANGED <<queueApiRequests, apiPc, completion_sem, result, nCalls, exitPath>>
    /\ UNCHANGED <<mainVars, fnVars>>

\* handle_error_callback: the transport reports an error for its oldest request.
ErrorCallback ==
    /\ mbQueue # <<>>
    /\ \E error \in TransportErrors :
         Deliver(ErrorResult(error, Head(mbQueue).from), Head(mbQueue).token)
    /\ mbQueue' = Tail(mbQueue)
    /\ UNCHANGED <<queueApiRequests, apiPc, completion_sem, result, nCalls, exitPath>>
    /\ UNCHANGED <<mainVars, fnVars>>

NextApi ==
    \/ ApiCall
    \/ ApiSubmit
    \/ ApiTakeSignalled
    \/ ApiWaitExpires
    \/ WorkerTask
    \/ DataCallback
    \/ ErrorCallback

(***************************************************************************)
(* Part B.  main.cpp                                                       *)
(***************************************************************************)
\* constexpr size_t MAX_REQUESTS = 16
MAX_REQUESTS == 16
\* xQueueCreate(10, ...) for the four queues of setup()
QUEUE_LEN == 10
\* #define MAX_MODBUS_RESPONSE_LENGTH 256
MAX_MODBUS_RESPONSE_LENGTH == 256
\* #define MAX_SENSOR_PAYLOAD 128
MAX_SENSOR_PAYLOAD == 128
\* if (slaveIt->consecutiveFails >= 3)
EVICT_FAILS == 3
\* uint16_t
U16 == 65536
\* transport requests MB.addRequest accepts before it reports an error
MaxPending == 2
\* last value of millis() the model reaches
MaxTime == 2
\* slaves wired to the bus: ids 1..BusDevices; any other id never answers
BusDevices == 2

\* std::vector<uint8_t> dispositivosAConsultar = {1, 2, 3}
dispositivosAConsultar == <<1, 2, 3>>
DeviceIds == {dispositivosAConsultar[i] : i \in DOMAIN dispositivosAConsultar}

\* enum DiscoveryOrder
DISCOVERY_GET_COUNT == 1
DISCOVERY_GET_DATA_OFFSET == 255
DISCOVERY_READ_SENSOR_PARAM == 8

\* Errors ModbusClientRTU hands to handleError for a request to slave d: a
\* slave that is not on the bus never answers.
MbErrors(d) == IF d <= BusDevices THEN {"TIMEOUT", "ILLEGAL_DATA_ADDRESS"} ELSE {"TIMEOUT"}

\* The eight parameter registers device d answers a discovery read with
\* (big-endian byte pairs): sensorID, numberOfChannels, startAddress,
\* maxRegisters, samplingInterval, dataType, scale, compressedBytes.
DescriptorBytes(d) ==
    <<0, d - 1,  0, 1,  0, 10,  0, 1,  0, 1,  0, 2,  0, 0,  0, 0>>

\* The bytes device d answers a read of qty registers with.
RegisterBytes(d, qty) == [i \in 1..(2 * qty) |-> IF i % 2 = 1 THEN d ELSE i]

\* The raw response of device d to a request: serverID, FC, byte count, data.
SlaveResponse(d, addr, qty) ==
    <<d, 3, 2 * qty>> \o (IF addr = 0 /\ qty = 8 THEN DescriptorBytes(d)
                                                 ELSE RegisterBytes(d, qty))

\* response.data[i] of a ResponseFormat (0-based); bytes past length are
\* whatever the buffer held, read here as 0.
Byte(response, i) == IF i < Len(response.data) THEN response.data[i + 1] ELSE 0

\* ---- std::find_if over the lists --------------------------------------
\* index of the first slave with the id, 0 for end()
FindSlave(list, id) ==
    IF \E i \in DOMAIN list : list[i].slaveID = id
    THEN CHOOSE i \in DOMAIN list :
            list[i].slaveID = id /\ \A j \in 1..(i - 1) : list[j].slaveID # id
    ELSE 0

\* index of the first sensor with the id, 0 for end()
FindSensor(sensors, id) ==
    IF \E i \in DOMAIN sensors : sensors[i].sensorID = id
    THEN CHOOSE i \in DOMAIN sensors :
            sensors[i].sensorID = id /\ \A j \in 1..(i - 1) : sensors[j].sensorID # id
    ELSE 0

RemoveAt(seq, i) == SubSeq(seq, 1, i - 1) \o SubSeq(seq, i + 1, Len(seq))

\* ---- pending-request ring ----------------------------------------------
ZeroRequest == [token |-> 0, slaveId |-> 0, sensorId |-> 0, functionCode |-> 0,
                type |-> "REQUEST_UNKNOWN"]

\* findRequestByToken: index of the first slot holding the token, -1 for nullptr.
findRequestByToken(buf, token) ==
    IF \E i \in 0..(MAX_REQUESTS - 1) : buf[i].token = token
    THEN CHOOSE i \in 0..(MAX_REQUESTS - 1) :
            buf[i].token = token /\ \A j \in 0..(i - 1) : buf[j].token # token
    ELSE -1

\* request->token = 0 (lines 311 and 833); a version that leaves the token
Invalidate_Keep(buf, idx) == buf

\* request->token = 0
Invalidate(buf, idx) == [buf EXCEPT ![idx].token = 0]

\* a counter that does not skip 0
NextToken_NoSkip(t) == t + 1

\* if (++requestToken == 0) ++requestToken;  the counter is a uint32_t.  An
\* integer t of the model stands for the uint32_t value t mod 2^32, so the
\* values just below the wrap are -1 (0xFFFFFFFF), -2, ... and ++ is t + 1.
NextToken(t) == IF t + 1 = 0 THEN 1 ELSE t + 1

\* ---- initScheduler -------------------------------------------------------
\* The interval initScheduler stores for a sensor (lines 210-220).
CalculatedInterval(sensor) ==
    LET calculatedInterval ==
          IF sensor.numberOfChannels > 0 /\ sensor.maxRegisters > 0
          THEN sensor.samplingInterval
                 * ((sensor.maxRegisters \div sensor.numberOfChannels) % U16)
          ELSE sensor.samplingInterval
    IN  calculatedInterval % U16

RECURSIVE SensorEntries(_, _, _)
SensorEntries(slaveID, sensors, t) ==
    IF sensors = <<>> THEN <<>>
    ELSE <<[slaveID |-> slaveID, sensorID |-> Head(sensors).sensorID,
            samplingInterval |-> CalculatedInterval(Head(sensors)),
            nextSampleTime |-> t]>>
         \o SensorEntries(slaveID, Tail(sensors), t)

\* scheduleList after initScheduler ran at time t over the registry.
RECURSIVE initScheduler(_, _)
initScheduler(slaves, t) ==
    IF slaves = <<>> THEN <<>>
    ELSE SensorEntries(Head(slaves).slaveID, Head(slaves).sensors, t)
         \o initScheduler(Tail(slaves), t)

\* ---- parseAndStoreDiscoveryResponse ------------------------------------
\* a version of ParseSensor that takes the high byte of reg0 as the sensorID
ParseSensor_HighByte(response) ==
    [sensorID         |-> Byte(response, 3 + 0),
     numberOfChannels |-> Byte(response, 3 + 3),
     startAddress     |-> Byte(response, 3 + 4) * 256 + Byte(response, 3 + 5),
     maxRegisters     |-> Byte(response, 3 + 6) * 256 + Byte(response, 3 + 7),
     samplingInterval |-> Byte(response, 3 + 8) * 256 + Byte(response, 3 + 9),
     dataType         |-> Byte(response, 3 + 11),
     scale            |-> Byte(response, 3 + 13),
     compressedBytes  |-> Byte(response, 3 + 15)]

ParseSensor(response) ==
    [sensorID         |-> Byte(response, 3 + 1),
     numberOfChannels |-> Byte(response, 3 + 3),
     startAddress     |-> Byte(response, 3 + 4) * 256 + Byte(response, 3 + 5),
     maxRegisters     |-> Byte(response, 3 + 6) * 256 + Byte(response, 3 + 7),
     samplingInterval |-> Byte(response, 3 + 8) * 256 + Byte(response, 3 + 9),
     dataType         |-> Byte(response, 3 + 11),
     scale            |-> Byte(response, 3 + 13),
     compressedBytes  |-> Byte(response, 3 + 15)]

\* a version of parseAndStoreDiscoveryResponse that always appends the sensor
parseAndStoreDiscoveryResponse_Append(slaves, response, slaveId) ==
    IF response.length < 16 THEN slaves
    ELSE LET slaveIt == FindSlave(slaves, slaveId)
         IN  IF slaveIt # 0
             THEN [slaves EXCEPT ![slaveIt].sensors = Append(@, ParseSensor(response))]
             ELSE Append(slaves, [slaveID |-> slaveId, sensors |-> <<ParseSensor(response)>>,
                                  consecutiveFails |-> 0])

\* slaveList after parseAndStoreDiscoveryResponse(response, slaveId).
parseAndStoreDiscoveryResponse(slaves, response, slaveId) ==
    IF response.length < 16 THEN slaves
    ELSE
      LET newSensor == ParseSensor(response)
          slaveIt   == FindSlave(slaves, slaveId)
      IN  IF slaveIt # 0
          THEN LET sensorIt == FindSensor(slaves[slaveIt].sensors, newSensor.sensorID)
               IN  IF sensorIt # 0
                   THEN [slaves EXCEPT ![slaveIt].sensors[sensorIt] = newSensor]
                   ELSE [slaves EXCEPT ![slaveIt].sensors = Append(@, newSensor)]
          ELSE Append(slaves, [slaveID |-> slaveId, sensors |-> <<newSensor>>,
                               consecutiveFails |-> 0])

\* ---- BitPacker and formatAndEnqueueSensorData ---------------------------
Pow2(n) == 2 ^ n

\* What a build makes of the int shift 1 << n for n >= 32, which the language
\* leaves undefined: the shift count taken modulo 32, or a result of 0.
ShiftOutcomes == {"mod32", "zero"}

\* buffer &= (1 << bits_usados) - 1.  The mask is an int: it is defined for
\* bits_usados < 31, 0x7FFFFFFF for 31 under wrapping arithmetic, and for
\* more bits the outcome ub of the build: mask (1 << (bits_usados % 32)) - 1,
\* or 0 - 1, all ones.  The buffers of the model stay below 2^31, so a mask
\* of 31 ones or more keeps them whole.
ClearUsed(buffer, bits_usados, ub) ==
    IF bits_usados < 31 THEN buffer % Pow2(bits_usados)
    ELSE IF ub = "mod32" /\ bits_usados % 32 < 31 THEN buffer % Pow2(bits_usados % 32)
    ELSE buffer

\* (buffer >> shift) & 0xFF, for buffers below 2^31
ByteAt(buffer, shift) == IF shift >= 31 THEN 0 ELSE (buffer \div Pow2(shift)) % 256

\* The while loop of BitPacker::push on the packer [buffer, bits_usados, out].
RECURSIVE Drain(_, _)
Drain(p, ub) ==
    IF p.bits_usados >= 8
    THEN LET shift == p.bits_usados - 8
         IN  Drain([buffer      |-> ClearUsed(p.buffer, shift, ub),
                    bits_usados |-> shift,
                    out         |-> Append(p.out, ByteAt(p.buffer, shift))], ub)
    ELSE p

\* valor & ((1ULL << nbits) - 1), valor a uint16_t
MaskValor(valor, nbits) == IF nbits >= 16 THEN valor ELSE valor % Pow2(nbits)

\* buffer <<= nbits, for an empty buffer or a result below 2^31
ShiftLeft(buffer, nbits) == IF buffer = 0 THEN 0 ELSE buffer * Pow2(nbits)

\* a push that keeps one bit too many of valor
BitPackerPush_WideMask(p, valor, nbits, ub) ==
    Drain([buffer      |-> ShiftLeft(p.buffer, nbits) + (valor % Pow2(nbits + 1)),
           bits_usados |-> p.bits_usados + nbits,
           out         |-> p.out], ub)

\* BitPacker::push: the packer after push(valor, nbits).
BitPackerPush(p, valor, nbits, ub) ==
    Drain([buffer      |-> ShiftLeft(p.buffer, nbits) + MaskValor(valor, nbits),
           bits_usados |-> p.bits_usados + nbits,
           out         |-> p.out], ub)

\* a flush that emits the remaining bits right-justified
BitPackerFlush_RightJustified(p) ==
    IF p.bits_usados > 0
    THEN [buffer |-> 0, bits_usados |-> 0, out |-> Append(p.out, p.buffer % 256)]
    ELSE p

\* a flush that leaves the pending bits in place
BitPackerFlush_NoReset(p) ==
    IF p.bits_usados > 0
    THEN [p EXCEPT !.out = Append(p.out, (p.buffer * Pow2(8 - p.bits_usados)) % 256)]
    ELSE p

\* BitPacker::flush
BitPackerFlush(p) ==
    IF p.bits_usados > 0
    THEN [buffer |-> 0, bits_usados |-> 0,
          out |-> Append(p.out, (p.buffer * Pow2(8 - p.bits_usados)) % 256)]
    ELSE p

\* BitPacker packer;
NewPacker == [buffer |-> 0, bits_usados |-> 0, out |-> <<>>]

\* a loop that reads maxRegisters registers whatever the response length
RegistersRead_All(response, maxRegisters) == maxRegisters

\* Number of registers the decoding loops read: i < maxRegisters while
\* offset + 1 < response.length, offset = 3 + 2 i.
RegistersRead(response, maxRegisters) ==
    LET avail == IF response.length >= 5 THEN (response.length - 3) \div 2 ELSE 0
    IN  Min(maxRegisters, avail)

RECURSIVE PackRegisters(_, _, _, _, _, _)
PackRegisters(p, response, i, n, nbits, ub) ==
    IF i >= n THEN p
    ELSE PackRegisters(
           BitPackerPush(p, Byte(response, 3 + i * 2) * 256 + Byte(response, 4 + i * 2),
                         nbits, ub),
           response, i + 1, n, nbits, ub)

\* an uncompressed loop that emits the low byte first for uint16
RECURSIVE PlainRegisters_LowFirst(_, _, _, _)
PlainRegisters_LowFirst(response, i, n, dataType) ==
    IF i >= n THEN <<>>
    ELSE (IF dataType = 1 THEN <<Byte(response, 4 + i * 2)>>
          ELSE <<Byte(response, 4 + i * 2), Byte(response, 3 + i * 2)>>)
         \o PlainRegisters_LowFirst(response, i + 1, n, dataType)

RECURSIVE PlainRegisters(_, _, _, _)
PlainRegisters(response, i, n, dataType) ==
    IF i >= n THEN <<>>
    ELSE (IF dataType = 1 THEN <<Byte(response, 4 + i * 2)>>
          ELSE <<Byte(response, 3 + i * 2), Byte(response, 4 + i * 2)>>)
         \o PlainRegisters(response, i + 1, n, dataType)

\* The values formatAndEnqueueSensorData produces for a sensor's parameters.
FormatValues(response, params, ub) ==
    LET n == RegistersRead(response, params.maxRegisters)
    IN  IF params.compressedBytes > 0
        THEN BitPackerFlush(PackRegisters(NewPacker, response, 0, n,
                                          params.compressedBytes, ub)).out
        ELSE PlainRegisters(response, 0, n, params.dataType)

\* formatAndEnqueueSensorData: [ok, values]; fails when the slave or the
\* sensor of the request is not in the registry.
formatAndEnqueueSensorData(slaves, response, request, ub) ==
    LET slaveIt == FindSlave(slaves, request.slaveId)
    IN  IF slaveIt = 0 THEN [ok |-> FALSE, values |-> <<>>]
        ELSE LET sensorIt == FindSensor(slaves[slaveIt].sensors, request.sensorId)
             IN  IF sensorIt = 0 THEN [ok |-> FALSE, values |-> <<>>]
                 ELSE [ok |-> TRUE,
                       values |-> FormatValues(response, slaves[slaveIt].sensors[sensorIt], ub)]

\* a lookup that finds every pair
getSensorParams_Any(slaves, slaveId, sensorID) ==
    [found |-> TRUE, startAddr |-> 0, numRegs |-> 1]

\* getSensorParams: [found, startAddr, numRegs]
getSensorParams(slaves, slaveId, sensorID) ==
    LET slaveIt == FindSlave(slaves, slaveId)
    IN  IF slaveIt = 0 THEN [found |-> FALSE, startAddr |-> 0, numRegs |-> 0]
        ELSE LET sensorIt == FindSensor(slaves[slaveIt].sensors, sensorID)
             IN  IF sensorIt = 0 THEN [found |-> FALSE, startAddr |-> 0, numRegs |-> 0]
                 ELSE [found |-> TRUE,
                       startAddr |-> slaves[slaveIt].sensors[sensorIt].startAddress,
                       numRegs |-> slaves[slaveIt].sensors[sensorIt].maxRegisters]

\* getRegistersPerChannel: maxRegisters / numberOfChannels cut to a uint8_t,
\* 0 when the sensor is not in the registry or has no channel.
getRegistersPerChannel(slaves, slaveId, sensorID) ==
    LET slaveIt == FindSlave(slaves, slaveId)
    IN  IF slaveIt = 0 THEN 0
        ELSE LET sensorIt == FindSensor(slaves[slaveIt].sensors, sensorID)
             IN  IF sensorIt # 0 /\ slaves[slaveIt].sensors[sensorIt].numberOfChannels > 0
                 THEN (slaves[slaveIt].sensors[sensorIt].maxRegisters
                         \div slaves[slaveIt].sensors[sensorIt].numberOfChannels) % 256
                 ELSE 0

\* ---- construirPayloadUnificado ---------------------------------------------
SENSOR_ID_BATERIA == 0
SENSOR_ID_VOLTAJE == 1
SENSOR_ID_CORRIENTE == 2
SENSOR_ID_EXT_START == 3
MAX_SENSORES_EXTERNOS == 5
LORA_PAYLOAD_MAX == 220

\* The sensor ids that have a bit of the activate byte, bit = id.
ActivateIds ==
    {SENSOR_ID_BATERIA, SENSOR_ID_VOLTAJE, SENSOR_ID_CORRIENTE}
        \cup {SENSOR_ID_EXT_START + i : i \in 0..(MAX_SENSORES_EXTERNOS - 1)}

\* an activeSensors that keeps the first sample of a sensor id
activeSensors_First(collectedPayloads, sensorId) ==
    IF \E i \in DOMAIN collectedPayloads : collectedPayloads[i].sensorId = sensorId
    THEN CHOOSE i \in DOMAIN collectedPayloads :
           /\ collectedPayloads[i].sensorId = sensorId
           /\ \A j \in DOMAIN collectedPayloads :
                collectedPayloads[j].sensorId = sensorId => j >= i
    ELSE 0

\* activeSensors[sensorId]: the index of the sample the map holds for the id
\* after the loop of lines 917-919, the last one of that id; 0 for none.
activeSensors(collectedPayloads, sensorId) ==
    IF \E i \in DOMAIN collectedPayloads : collectedPayloads[i].sensorId = sensorId
    THEN CHOOSE i \in DOMAIN collectedPayloads :
           /\ collectedPayloads[i].sensorId = sensorId
           /\ \A j \in DOMAIN collectedPayloads :
                collectedPayloads[j].sensorId = sensorId => j <= i
    ELSE 0

\* an activate byte without the loop of the external sensors
ActivateBits_NoExternal(collectedPayloads) ==
    { id \in {SENSOR_ID_BATERIA, SENSOR_ID_VOLTAJE, SENSOR_ID_CORRIENTE} :
        activeSensors(collectedPayloads, id) # 0 }

\* The bits set in activate_byte (lines 923-937).
ActivateBits(collectedPayloads) ==
    { id \in ActivateIds : activeSensors(collectedPayloads, id) # 0 }

RECURSIVE ActivateByte(_, _)
ActivateByte(bits, b) ==
    IF b > 7 THEN 0
    ELSE (IF b \in bits THEN Pow2(b) ELSE 0) + ActivateByte(bits, b + 1)

\* len_byte of one active sensor (lines 946-951 and the three copies after).
LenByte(slaves, sensor) ==
    getRegistersPerChannel(slaves, sensor.slaveId, sensor.sensorId) % 32

\* The length bytes (lines 939-986) from bit b on, in the order of the bits.
RECURSIVE LenBytes(_, _, _, _)
LenBytes(slaves, collectedPayloads, bits, b) ==
    IF b > 7 THEN <<>>
    ELSE (IF b \in bits
          THEN <<LenByte(slaves, collectedPayloads[activeSensors(collectedPayloads, b)])>>
          ELSE <<>>) \o LenBytes(slaves, collectedPayloads, bits, b + 1)

\* data blocks that come in descending bit order
RECURSIVE DataBlocks_Descending(_, _, _)
DataBlocks_Descending(collectedPayloads, bits, b) ==
    IF b > 7 THEN <<>>
    ELSE DataBlocks_Descending(collectedPayloads, bits, b + 1) \o
         (IF b \in bits
          THEN collectedPayloads[activeSensors(collectedPayloads, b)].data
          ELSE <<>>)

\* The data blocks (lines 988-1018) from bit b on.
RECURSIVE DataBlocks(_, _, _)
DataBlocks(collectedPayloads, bits, b) ==
    IF b > 7 THEN <<>>
    ELSE (IF b \in bits
          THEN collectedPayloads[activeSensors(collectedPayloads, b)].data
          ELSE <<>>) \o DataBlocks(collectedPayloads, bits, b + 1)

\* a build that leaves the activate byte out when no bit is set
construirPayloadUnificado_NoActivate(id_mensaje, collectedPayloads, slaves, ts_s) ==
    LET bits == ActivateBits(collectedPayloads)
    IN  <<id_mensaje,
          (ts_s \div 16777216) % 256, (ts_s \div 65536) % 256,
          (ts_s \div 256) % 256, ts_s % 256>>
        \o (IF bits = {} THEN <<>> ELSE <<ActivateByte(bits, 0)>>)
        \o LenBytes(slaves, collectedPayloads, bits, 0)
        \o DataBlocks(collectedPayloads, bits, 0)

\* construirPayloadUnificado, ts_s the value of time(nullptr) (below 2^31).
construirPayloadUnificado(id_mensaje, collectedPayloads, slaves, ts_s) ==
    LET bits == ActivateBits(collectedPayloads)
    IN  <<id_mensaje,
          (ts_s \div 16777216) % 256, (ts_s \div 65536) % 256,
          (ts_s \div 256) % 256, ts_s % 256,
          ActivateByte(bits, 0)>>
        \o LenBytes(slaves, collectedPayloads, bits, 0)
        \o DataBlocks(collectedPayloads, bits, 0)

\* handleError is not waiting for schedulerMutex
NotWaiting == [slave |-> 0, idx |-> 0]
\* initialDiscoveryTask has deleted itself
DiscoveryDone == Len(dispositivosAConsultar) + 1

\* ---- state after construction (setup) -----------------------------------
InitMain ==
    /\ slaveList = <<>>
    /\ scheduleList = <<>>
    /\ schedulerMutex = "free"
    /\ requestBuffer = [i \in 0..(MAX_REQUESTS - 1) |-> ZeroRequest]
    /\ requestHead = 0
    /\ requestToken = 0
    /\ queueEventos_Peripheral = <<>>
    /\ queueEventos_Scheduler = <<>>
    /\ queueRespuestas = <<>>
    /\ queueSensorDataPayload = <<>>
    /\ mbRequests = <<>>
    /\ discoveryPc = 0
    /\ errorPc = NotWaiting
    /\ now = 0
    /\ failRun = [d \in DeviceIds |-> 0]
    /\ discoverReturn = [d \in DeviceIds |-> "none"]

\* ---- initialDiscoveryTask ------------------------------------------------
\* a version of DiscoverDevice that reports success without queueing the event
DiscoverDevice_NoQueue ==
    /\ discoveryPc \in 0..(Len(dispositivosAConsultar) - 1)
    /\ discoverReturn' = [discoverReturn EXCEPT
                             ![dispositivosAConsultar[discoveryPc + 1]] = "true"]
    /\ discoveryPc' = discoveryPc + 1
    /\ UNCHANGED <<slaveList, scheduleList, schedulerMutex, requestBuffer, requestHead,
                   requestToken, queueEventos_Peripheral, queueEventos_Scheduler,
                   queueRespuestas, queueSensorDataPayload, mbRequests, errorPc, now,
                   literalShared, failRun>>
    /\ UNCHANGED <<apiVars, fnVars>>

\* One turn of the loop: discoverDeviceSensors(deviceId) queues the event
\* (it is lost when the queue stays full), then the 50 ms delay.
DiscoverDevice ==
    /\ discoveryPc \in 0..(Len(dispositivosAConsultar) - 1)
    /\ LET deviceId == dispositivosAConsultar[discoveryPc + 1]
           ev == [slaveId |-> deviceId, sensorID |-> 0, order |-> DISCOVERY_READ_SENSOR_PARAM]
       IN  /\ queueEventos_Peripheral' = QueueSend(queueEventos_Peripheral, ev, QUEUE_LEN)
           /\ discoverReturn' = [discoverReturn EXCEPT
                                    ![deviceId] =
                                        IF Len(queueEventos_Peripheral) < QUEUE_LEN
                                        THEN "true" ELSE "false"]
    /\ discoveryPc' = discoveryPc + 1
    /\ UNCHANGED <<slaveList, scheduleList, schedulerMutex, requestBuffer, requestHead,
                   requestToken, queueEventos_Scheduler, queueRespuestas,
                   queueSensorDataPayload, mbRequests, errorPc, now, literalShared, failRun>>
    /\ UNCHANGED <<apiVars, fnVars>>

\* After the loop: initScheduler() under schedulerMutex (portMAX_DELAY),
\* then the task deletes itself.
DiscoveryInitScheduler ==
    /\ discoveryPc = Len(dispositivosAConsultar)
    /\ schedulerMutex = "free"
    /\ scheduleList' = initScheduler(slaveList, now)
    /\ discoveryPc' = DiscoveryDone
    /\ UNCHANGED <<slaveList, schedulerMutex, requestBuffer, requestHead, requestToken,
                   queueEventos_Peripheral, queueEventos_Scheduler, queueRespuestas,
                   queueSensorDataPayload, mbRequests, errorPc, now, literalShared, failRun>>
    /\ UNCHANGED <<apiVars, fnVars, discoverReturn>>

\* ---- DataRequestScheduler -------------------------------------------------
\* a scan that reschedules an entry only when its event was queued
RECURSIVE SchedulerScan_OnlyIfSent(_, _, _, _)
SchedulerScan_OnlyIfSent(list, i, t, queue) ==
    IF i > Len(list) THEN [list |-> list, queue |-> queue]
    ELSE LET item == list[i] IN
         IF t >= item.nextSampleTime /\ Len(queue) < QUEUE_LEN
         THEN SchedulerScan_OnlyIfSent(
                [list EXCEPT ![i].nextSampleTime = t + item.samplingInterval],
                i + 1, t,
                Append(queue, [slaveId |-> item.slaveID, sensorID |-> item.sensorID,
                               order |-> 1]))
         ELSE SchedulerScan_OnlyIfSent(list, i + 1, t, queue)

\* The scan of one pass (lines 393-407) from entry i on: every due entry
\* queues its event (lost when the queue stays full) and is rescheduled.
RECURSIVE SchedulerScan(_, _, _, _)
SchedulerScan(list, i, t, queue) ==
    IF i > Len(list) THEN [list |-> list, queue |-> queue]
    ELSE LET item == list[i] IN
         IF t >= item.nextSampleTime
         THEN SchedulerScan(
                [list EXCEPT ![i].nextSampleTime = t + item.samplingInterval],
                i + 1, t,
                QueueSend(queue, [slaveId |-> item.slaveID, sensorID |-> item.sensorID,
                                  order |-> 1], QUEUE_LEN))
         ELSE SchedulerScan(list, i + 1, t, queue)

\* The smallest nextSampleTime of a non-empty list (lines 391, 404-406).
RECURSIVE NextEventTime(_)
NextEventTime(list) ==
    IF Len(list) = 1 THEN list[1].nextSampleTime
    ELSE Min(list[1].nextSampleTime, NextEventTime(Tail(list)))

SCHEDULER_IDLE_SLEEP == 1000
SCHEDULER_MIN_SLEEP == 10

\* a sleep that looks at the first entry only
SleepTime_First(list, t) ==
    IF list = <<>> THEN SCHEDULER_IDLE_SLEEP
    ELSE IF list[1].nextSampleTime > t THEN list[1].nextSampleTime - t
    ELSE SCHEDULER_MIN_SLEEP

\* sleepTime in ms (lines 385, 409-416) for the list the scan left and the
\* second reading t of millis().
SleepTime(list, t) ==
    IF list = <<>> THEN SCHEDULER_IDLE_SLEEP
    ELSE IF NextEventTime(list) > t THEN NextEventTime(list) - t
    ELSE SCHEDULER_MIN_SLEEP

\* xSemaphoreTake(schedulerMutex, portMAX_DELAY) at the top of a pass.  The
\* task sleeps until the next entry is due; a pass that finds nothing due
\* changes nothing and is left out.
SchedulerTake ==
    /\ schedulerMutex = "free"
    /\ \E i \in DOMAIN scheduleList : now >= scheduleList[i].nextSampleTime
    /\ schedulerMutex' = "Scheduler"
    /\ UNCHANGED <<slaveList, scheduleList, requestBuffer, requestHead, requestToken,
                   queueEventos_Peripheral, queueEventos_Scheduler, queueRespuestas,
                   queueSensorDataPayload, mbRequests, discoveryPc, errorPc, now,
                   literalShared, failRun>>
    /\ UNCHANGED <<apiVars, fnVars, discoverReturn>>

\* The pass under the mutex, then xSemaphoreGive.
SchedulerPass ==
    /\ schedulerMutex = "Scheduler"
    /\ LET scan == SchedulerScan(scheduleList, 1, now, queueEventos_Scheduler)
       IN  /\ scheduleList' = scan.list
           /\ queueEventos_Scheduler' = scan.queue
    /\ schedulerMutex' = "free"
    /\ UNCHANGED <<slaveList, requestBuffer, requestHead, requestToken,
                   queueEventos_Peripheral, queueRespuestas, queueSensorDataPayload,
                   mbRequests, discoveryPc, errorPc, now, literalShared, failRun>>
    /\ UNCHANGED <<apiVars, fnVars, discoverReturn>>

\* millis() advances.
Tick ==
    /\ now < MaxTime
    /\ now' = now + 1
    /\ UNCHANGED <<slaveList, scheduleList, schedulerMutex, requestBuffer, requestHead,
                   requestToken, queueEventos_Peripheral, queueEventos_Scheduler,
                   queueRespuestas, queueSensorDataPayload, mbRequests, discoveryPc,
                   errorPc, literalShared, failRun>>
    /\ UNCHANGED <<apiVars, fnVars, discoverReturn>>

\* ---- EventManager ----------------------------------------------------------
\* addRequest(token, ...) on the ring
RingAdd(buf, head, info) == [buf EXCEPT ![head] = info]

\* The request EventManager makes of a peripheral event: [sent, addr, qty].
PeripheralRequest(event) ==
    IF event.order = DISCOVERY_READ_SENSOR_PARAM
    THEN [sent |-> TRUE, addr |-> 0, qty |-> 8]
    ELSE IF event.order = DISCOVERY_GET_COUNT
    THEN [sent |-> TRUE, addr |-> 0, qty |-> event.order]
    ELSE IF event.order >= DISCOVERY_GET_DATA_OFFSET
    THEN [sent |-> TRUE, addr |-> DISCOVERY_GET_COUNT,
          qty |-> event.order - DISCOVERY_GET_DATA_OFFSET]
    ELSE [sent |-> FALSE, addr |-> 0, qty |-> 0]

\* MB.addRequest followed by the bookkeeping of lines 583-587: the client
\* accepts the request unless its queue is full, and only an accepted
\* request has its context written to the ring.
SubmitRequest(event, addr, qty, type) ==
    /\ requestToken' = NextToken(requestToken)
    /\ IF Len(mbRequests) < MaxPending
       THEN /\ mbRequests' = Append(mbRequests,
                  [token |-> NextToken(requestToken), slaveId |-> event.slaveId,
                   addr |-> addr, qty |-> qty, type |-> type])
            /\ requestBuffer' = RingAdd(requestBuffer, requestHead,
                  [token |-> NextToken(requestToken), slaveId |-> event.slaveId,
                   sensorId |-> event.sensorID, functionCode |-> 3, type |-> type])
            /\ requestHead' = (requestHead + 1) % MAX_REQUESTS
       ELSE UNCHANGED <<mbRequests, requestBuffer, requestHead>>

\* One turn of the loop with an event of the scheduler queue.
EventManagerSampling ==
    /\ queueEventos_Scheduler # <<>>
    /\ LET event == Head(queueEventos_Scheduler)
           p == getSensorParams(slaveList, event.slaveId, event.sensorID)
       IN  IF p.found
           THEN SubmitRequest(event, p.startAddr, p.numRegs, "REQUEST_SAMPLING")
           ELSE UNCHANGED <<requestToken, mbRequests, requestBuffer, requestHead>>
    /\ queueEventos_Scheduler' = Tail(queueEventos_Scheduler)
    /\ UNCHANGED <<slaveList, scheduleList, schedulerMutex, queueEventos_Peripheral,
                   queueRespuestas, queueSensorDataPayload, discoveryPc, errorPc, now,
                   literalShared, failRun>>
    /\ UNCHANGED <<apiVars, fnVars, discoverReturn>>

\* One turn of the loop with an event of the peripheral queue (taken only
\* when the scheduler queue is empty).
EventManagerDiscovery ==
    /\ queueEventos_Scheduler = <<>>
    /\ queueEventos_Peripheral # <<>>
    /\ LET event == Head(queueEventos_Peripheral)
           r == PeripheralRequest(event)
       IN  IF r.sent
           THEN SubmitRequest(event, r.addr, r.qty, "REQUEST_DISCOVERY")
           ELSE UNCHANGED <<requestToken, mbRequests, requestBuffer, requestHead>>
    /\ queueEventos_Peripheral' = Tail(queueEventos_Peripheral)
    /\ UNCHANGED <<slaveList, scheduleList, schedulerMutex, queueEventos_Scheduler,
                   queueRespuestas, queueSensorDataPayload, discoveryPc, errorPc, now,
                   literalShared, failRun>>
    /\ UNCHANGED <<apiVars, fnVars, discoverReturn>>

\* ---- ModbusClientRTU callbacks -----------------------------------------------
\* handleData, lines 245-255: the ResponseFormat made of the slave's answer
\* to request req, cut to MAX_MODBUS_RESPONSE_LENGTH, with the token as order.
handleData(req) ==
    LET response == SlaveResponse(req.slaveId, req.addr, req.qty)
        len == Min(Len(response), MAX_MODBUS_RESPONSE_LENGTH)
    IN  [data |-> SubSeq(response, 1, len), length |-> len,
         deviceId |-> response[1], order |-> req.token]

\* handleData: the transport answers the oldest request with the slave's
\* response; the ResponseFormat goes to queueRespuestas (lost when full).
MbData ==
    /\ mbRequests # <<>>
    /\ errorPc = NotWaiting
    /\ Head(mbRequests).slaveId <= BusDevices
    /\ LET req == Head(mbRequests)
       IN  /\ queueRespuestas' = QueueSend(queueRespuestas, handleData(req), QUEUE_LEN)
           /\ failRun' = IF req.type = "REQUEST_SAMPLING"
                         THEN [failRun EXCEPT ![req.slaveId] = 0] ELSE failRun
    /\ mbRequests' = Tail(mbRequests)
    /\ UNCHANGED <<slaveList, scheduleList, schedulerMutex, requestBuffer, requestHead,
                   requestToken, queueEventos_Peripheral, queueEventos_Scheduler,
                   queueSensorDataPayload, discoveryPc, errorPc, now, literalShared>>
    /\ UNCHANGED <<apiVars, fnVars, discoverReturn>>

\* (const char *)me == "TIMEOUT": a comparison of two pointers, true only in
\* a build where the library's text and this literal are one object.
IsTimeoutText(error) == error = "TIMEOUT" /\ literalShared

\* handleError(error, token) for request req, lines 268-316: what it does
\* to the registry, the schedule and the ring.
handleError(req, error) ==
    LET idx == findRequestByToken(requestBuffer, req.token)
    IN
    /\ failRun' = IF req.type = "REQUEST_SAMPLING" /\ FindSlave(slaveList, req.slaveId) # 0
                  THEN [failRun EXCEPT ![req.slaveId] = Min(@ + 1, EVICT_FAILS)]
                  ELSE failRun
    /\ IF ~IsTimeoutText(error) \/ idx = -1
       THEN UNCHANGED <<slaveList, scheduleList, requestBuffer, errorPc>>
       ELSE
         LET failedSlaveId == requestBuffer[idx].slaveId
             slaveIt == FindSlave(slaveList, failedSlaveId)
         IN  IF slaveIt = 0
             THEN /\ requestBuffer' = Invalidate(requestBuffer, idx)
                  /\ UNCHANGED <<slaveList, scheduleList, errorPc>>
             ELSE IF (slaveList[slaveIt].consecutiveFails + 1) % 256 < EVICT_FAILS
             THEN /\ slaveList' = [slaveList EXCEPT
                                     ![slaveIt].consecutiveFails = (@ + 1) % 256]
                  /\ requestBuffer' = Invalidate(requestBuffer, idx)
                  /\ UNCHANGED <<scheduleList, errorPc>>
             ELSE /\ slaveList' = RemoveAt(slaveList, slaveIt)
                  /\ IF schedulerMutex = "free"
                     THEN /\ scheduleList' = initScheduler(slaveList', now)
                          /\ requestBuffer' = Invalidate(requestBuffer, idx)
                          /\ UNCHANGED errorPc
                     ELSE /\ errorPc' = [slave |-> failedSlaveId, idx |-> idx]
                          /\ UNCHANGED <<scheduleList, requestBuffer>>

\* handleError: the transport fails the oldest request.
MbError ==
    /\ mbRequests # <<>>
    /\ errorPc = NotWaiting
    /\ \E error \in MbErrors(Head(mbRequests).slaveId) :
         handleError(Head(mbRequests), error)
    /\ mbRequests' = Tail(mbRequests)
    /\ UNCHANGED <<schedulerMutex, requestHead, requestToken, queueEventos_Peripheral,
                   queueEventos_Scheduler, queueRespuestas, queueSensorDataPayload,
                   discoveryPc, now, literalShared>>
    /\ UNCHANGED <<apiVars, fnVars, discoverReturn>>

\* handleError waiting in xSemaphoreTake(schedulerMutex, 100 ms): the mutex
\* comes free in time; the entries go, the schedule is rebuilt.
ErrorLockAcquired ==
    /\ errorPc # NotWaiting
    /\ schedulerMutex = "free"
    /\ scheduleList' = initScheduler(slaveList, now)
    /\ requestBuffer' = Invalidate(requestBuffer, errorPc.idx)
    /\ errorPc' = NotWaiting
    /\ UNCHANGED <<slaveList, schedulerMutex, requestHead, requestToken,
                   queueEventos_Peripheral, queueEventos_Scheduler, queueRespuestas,
                   queueSensorDataPayload, mbRequests, discoveryPc, now, literalShared,
                   failRun>>
    /\ UNCHANGED <<apiVars, fnVars, discoverReturn>>

\* ... or the 100 ms pass with the mutex still held: the else branch only
\* prints, scheduleList is left as it was.
ErrorLockTimeout ==
    /\ errorPc # NotWaiting
    /\ schedulerMutex # "free"
    /\ requestBuffer' = Invalidate(requestBuffer, errorPc.idx)
    /\ errorPc' = NotWaiting
    /\ UNCHANGED <<slaveList, scheduleList, schedulerMutex, requestHead, requestToken,
                   queueEventos_Peripheral, queueEventos_Scheduler, queueRespuestas,
                   queueSensorDataPayload, mbRequests, discoveryPc, now, literalShared,
                   failRun>>
    /\ UNCHANGED <<apiVars, fnVars, discoverReturn>>

\* ---- DataFormatter -------------------------------------------------------------
\* One response taken from queueRespuestas and processed.
DataFormatter ==
    /\ queueRespuestas # <<>>
    /\ LET response == Head(queueRespuestas)
           idx == findRequestByToken(requestBuffer, response.order)
       IN  IF idx # -1 /\ requestBuffer[idx].token # 0
           THEN LET request == requestBuffer[idx] IN
                /\ requestBuffer' = Invalidate(requestBuffer, idx)
                /\ IF request.type = "REQUEST_DISCOVERY"
                   THEN /\ slaveList' = parseAndStoreDiscoveryResponse(slaveList, response,
                                                                       request.slaveId)
                        /\ UNCHANGED queueSensorDataPayload
                   ELSE IF request.type = "REQUEST_SAMPLING"
                   THEN \E ub \in ShiftOutcomes :
                        LET f == formatAndEnqueueSensorData(slaveList, response, request, ub)
                            payload == [slaveId |-> request.slaveId,
                                        sensorId |-> request.sensorId,
                                        data |-> SubSeq(f.values, 1,
                                                   Min(Len(f.values), MAX_SENSOR_PAYLOAD))]
                        IN  /\ queueSensorDataPayload' =
                                 IF f.ok THEN QueueSend(queueSensorDataPayload, payload, QUEUE_LEN)
                                 ELSE queueSensorDataPayload
                            /\ UNCHANGED slaveList
                   ELSE UNCHANGED <<slaveList, queueSensorDataPayload>>
           ELSE UNCHANGED <<requestBuffer, slaveList, queueSensorDataPayload>>
    /\ queueRespuestas' = Tail(queueRespuestas)
    /\ UNCHANGED <<scheduleList, schedulerMutex, requestHead, requestToken,
                   queueEventos_Peripheral, queueEventos_Scheduler, mbRequests,
                   discoveryPc, errorPc, now, literalShared, failRun>>
    /\ UNCHANGED <<apiVars, fnVars, discoverReturn>>

\* ---- DataAggregatorTask ---------------------------------------------------------
\* An aggregation cycle empties queueSensorDataPayload (lines 1192-1199).
DataAggregatorTask ==
    /\ queueSensorDataPayload # <<>>
    /\ queueSensorDataPayload' = <<>>
    /\ UNCHANGED <<slaveList, scheduleList, schedulerMutex, requestBuffer, requestHead,
                   requestToken, queueEventos_Peripheral, queueEventos_Scheduler,
                   queueRespuestas, mbRequests, discoveryPc, errorPc, now, literalShared,
                   failRun>>
    /\ UNCHANGED <<apiVars, fnVars, discoverReturn>>


Next ==
    \/ DiscoverDevice
    \/ DiscoveryInitScheduler
    \/ SchedulerTake
    \/ SchedulerPass
    \/ Tick
    \/ EventManagerSampling
    \/ EventManagerDiscovery
    \/ MbData
    \/ MbError
    \/ ErrorLockAcquired
    \/ ErrorLockTimeout
    \/ DataFormatter
    \/ DataAggregatorTask


(***************************************************************************)
(* Specifications.                                                         *)
(***************************************************************************)
\* no function is applied on its own
NoFn == fnPc = "none" /\ fnIn = <<>> /\ fnOut = <<>>

\* The request bridge alone; main.cpp's state stays as setup() leaves it.
InitSpecApi == InitApi /\ InitMain /\ literalShared = FALSE /\ NoFn

SpecApi == InitSpecApi /\ [][NextApi]_vars

\* The caller's own steps always complete: xQueueSend waits at most 100 ms
\* and xSemaphoreTake at most timeout_ms.
FairSpecApi ==
    /\ SpecApi
    /\ WF_vars(ApiSubmit)
    /\ WF_vars(ApiTakeSignalled)
    /\ WF_vars(ApiWaitExpires)

\* main.cpp; the request bridge is not called.
Init == InitApi /\ InitMain /\ literalShared \in BOOLEAN /\ NoFn

Spec == Init /\ [][Next]_vars

\* Every task setup() creates keeps running, the transport answers every
\* request, and the 100 ms wait of handleError ends.
FairSpec ==
    /\ Spec
    /\ WF_vars(DiscoverDevice)
    /\ WF_vars(DiscoveryInitScheduler)
    /\ WF_vars(SchedulerTake)
    /\ WF_vars(SchedulerPass)
    /\ WF_vars(EventManagerSampling)
    /\ WF_vars(EventManagerDiscovery)
    /\ WF_vars(MbData \/ MbError)
    /\ WF_vars(ErrorLockAcquired \/ ErrorLockTimeout)
    /\ WF_vars(DataFormatter)

(***************************************************************************)
(* Claims about the request bridge (Part A).                               *)
(***************************************************************************)

\* C1: every call to readRegisters releases the completion signal it
\* allocated before it returns, on every exit path: whenever the caller is
\* outside a call no signal is live (as many as before the call), and no
\* call of a sequence ever finds the signal pool exhausted.
C1_SignalReleased ==
    /\ apiPc \in {"idle", "returned"} => \A h \in Handles : sems[h] = "free"
    /\ exitPath # "internal"

\* A third or later call has returned on its wait timeout with no callback
\* ever fired for it.
C1_Witness ==
    /\ apiPc = "returned"
    /\ exitPath = "waitExpired"
    /\ nCalls >= 3
    /\ reported = NoResult

\* C2: with calls made one at a time, the result a call returns is never
\* the result the transport produced for an earlier call that timed out.
C2_NoLateResult ==
    apiPc = "returned" =>
        ~(result.from = "earlier" /\ result.error_code \in TransportCodes)

\* C3: when the wait of a call expires with neither callback fired for it,
\* the call returns ERROR_TIMEOUT with data length 0.
C3_TimeoutResult ==
    (apiPc = "returned" /\ exitPath = "waitExpired")
        => (result.error_code = "ERROR_TIMEOUT" /\ Len(result.data) = 0)

\* A call returned on its wait timeout while its request is still waiting
\* in the worker's queue: nothing was delivered for it.
C3_Witness ==
    /\ apiPc = "returned"
    /\ exitPath = "waitExpired"
    /\ reported = NoResult
    /\ \E i \in DOMAIN queueApiRequests : queueApiRequests[i].from = "this"

\* C4: every call to readRegisters eventually returns to its caller.
C4_CallReturns ==
    (apiPc \in {"created", "waiting"}) ~> (apiPc = "returned")

\* A call has returned although the transport still holds its request
\* unanswered.
C4_Witness ==
    /\ apiPc = "returned"
    /\ \E i \in DOMAIN mbQueue : mbQueue[i].from = "this"

\* C5: the result a call returns carries what the transport (or the worker,
\* for a rejected submission) reported for that call, and a request the
\* request queue refused returns ERROR_QUEUE_FULL.
C5_ResultIsReported ==
    /\ (apiPc = "returned" /\ exitPath = "signalled")
          => (result.error_code = reported.error_code /\ result.data = reported.data)
    /\ (apiPc = "returned" /\ exitPath = "submitFail")
          => result.error_code = "ERROR_QUEUE_FULL"

(***************************************************************************)
(* Claims about the registry and the schedule (Part B).                    *)
(***************************************************************************)
Registered(list, d) == FindSlave(list, d) # 0

Scheduled(d) == \E i \in DOMAIN scheduleList : scheduleList[i].slaveID = d

\* consecutiveFails of device d in the registry, -1 when d is not in it
CounterOf(list, d) ==
    IF Registered(list, d) THEN list[FindSlave(list, d)].consecutiveFails ELSE -1

\* C6: a registered device whose last 3 sampling requests all failed, with
\* no success in between, is absent from the registry and has no schedule
\* entry once the error callback of the 3rd failure has ended.
C6_EvictedAfterThreeFailures ==
    \A d \in DeviceIds :
        (failRun[d] >= EVICT_FAILS /\ errorPc = NotWaiting)
            => (~Registered(slaveList, d) /\ ~Scheduled(d))

\* This step is the DataFormatter processing a successful sample of device d.
SampleProcessed(d) ==
    /\ queueRespuestas # <<>>
    /\ queueRespuestas' = Tail(queueRespuestas)
    /\ LET response == Head(queueRespuestas)
           idx == findRequestByToken(requestBuffer, response.order)
       IN  /\ idx # -1
           /\ requestBuffer[idx].token # 0
           /\ requestBuffer[idx].type = "REQUEST_SAMPLING"
           /\ requestBuffer[idx].slaveId = d
           /\ \E ub \in ShiftOutcomes :
                 formatAndEnqueueSensorData(slaveList, response, requestBuffer[idx], ub).ok

\* C7: a successful sample of a device resets its consecutiveFails to 0:
\* after every step in which the DataFormatter processes a successful
\* sample of device d, d's counter is 0.
C7_SuccessResetsCounter ==
    [][\A d \in DeviceIds : SampleProcessed(d) => CounterOf(slaveList', d) = 0]_vars

\* C8: every failed sampling request of a registered device, whatever error
\* the transport reported, adds exactly 1 to that device's consecutiveFails
\* (or evicts it when the count reaches 3) and changes no other device's
\* counter.
C8_FailureCountsOnce ==
    [][\A d \in DeviceIds :
          failRun'[d] > failRun[d] =>
            /\ Registered(slaveList', d) =>
                  CounterOf(slaveList', d) = CounterOf(slaveList, d) + 1
            /\ ~Registered(slaveList', d) =>
                  CounterOf(slaveList, d) + 1 >= EVICT_FAILS
            /\ \A e \in DeviceIds \ {d} :
                  CounterOf(slaveList', e) = CounterOf(slaveList, e)]_vars

\* C9: whenever nobody holds the schedule lock and no eviction is under
\* way, every schedule entry names a device that is in the registry.
C9_ScheduleWithinRegistry ==
    (schedulerMutex = "free" /\ errorPc = NotWaiting)
        => \A i \in DOMAIN scheduleList : Registered(slaveList, scheduleList[i].slaveID)

\* The sensor sensorID of device d is in the registry.
InRegistry(d, sensorID) ==
    /\ Registered(slaveList, d)
    /\ FindSensor(slaveList[FindSlave(slaveList, d)].sensors, sensorID) # 0

\* The schedule has exactly one entry for the pair.
InSchedule(d, sensorID) ==
    Cardinality({i \in DOMAIN scheduleList :
                    scheduleList[i].slaveID = d /\ scheduleList[i].sensorID = sensorID}) = 1

\* C10: a sensor a discovery response added to the registry eventually has
\* exactly one schedule entry (unless its device leaves the registry
\* first), also when the response is processed after the bootstrap task's
\* initScheduler.
C10_DiscoveredIsScheduled ==
    \A d \in 1..BusDevices :
        InRegistry(d, d - 1) ~> (InSchedule(d, d - 1) \/ ~InRegistry(d, d - 1))

\* The system from setup() to the end of initialDiscoveryTask: every call of
\* discoverDeviceSensors is made in this stretch.  scheduleList is empty
\* until initScheduler() fills it, so of the tasks only those that serve
\* discovery requests have something to do.
NextStartup ==
    /\ discoveryPc # DiscoveryDone
    /\ \/ DiscoverDevice
       \/ DiscoveryInitScheduler
       \/ EventManagerDiscovery
       \/ MbData
       \/ MbError
       \/ DataFormatter

SpecStartup == Init /\ [][NextStartup]_vars

MaxChannels == 3

\* everything but the function variables, as setup() leaves it
InitRest == InitApi /\ InitMain /\ literalShared = FALSE

\* ModbusSensorParam
Sensor(id, channels, addr, regs, interval, type, scale, comp) ==
    [sensorID |-> id, numberOfChannels |-> channels, startAddress |-> addr,
     maxRegisters |-> regs, samplingInterval |-> interval, dataType |-> type,
     scale |-> scale, compressedBytes |-> comp]

\* ---- initScheduler over a registry of one device with one sensor ---------
IntervalInputs ==
    {[slaves |-> <<[slaveID |-> 1, consecutiveFails |-> 0,
                    sensors |-> <<Sensor(0, channels, 10, regs, interval, 2, 0, 0)>>]>>,
      now |-> t] :
        channels \in 0..MaxChannels, regs \in {1, 3, 18, 125},
        interval \in {1, 300, 1000}, t \in {0, 5}}

InitInterval == InitRest /\ fnPc = "input" /\ fnOut = <<>> /\ fnIn \in IntervalInputs

ApplyInitScheduler ==
    /\ fnPc = "input"
    /\ fnOut' = initScheduler(fnIn.slaves, fnIn.now)
    /\ fnPc' = "initScheduler"
    /\ UNCHANGED <<fnIn, apiVars, mainVars>>

NextInterval == ApplyInitScheduler

SpecInterval == InitInterval /\ [][NextInterval]_vars

\* ceil(a / b) for b >= 1
CeilDiv(a, b) == (a + b - 1) \div b

\* C11: for every descriptor with numberOfChannels >= 1 the interval of its
\* schedule entry is baseSamplingIntervalMs * ceil(maxRegisters /
\* numberOfChannels).
C11_IntervalIsCeil ==
    fnPc = "initScheduler" =>
        LET sensor == fnIn.slaves[1].sensors[1]
        IN  sensor.numberOfChannels >= 1 =>
              /\ Len(fnOut) = 1
              /\ fnOut[1].samplingInterval =
                    sensor.samplingInterval
                      * CeilDiv(sensor.maxRegisters, sensor.numberOfChannels)

\* ---- parseAndStoreDiscoveryResponse over a sequence of responses -----------
\* discovery responses processed in a row
MaxResponses == 3

\* register data of three descriptors: two for sensor 12 with different
\* values, one for sensor 13; every high byte differs from its low byte
DescriptorData ==
    { <<11, 12,  21, 22,  31, 32,  41, 42,  51, 52,  61, 62,  71, 72,  81, 82>>,
      <<91, 12,  23, 24,  33, 34,  43, 44,  53, 54,  63, 64,  73, 74,  83, 84>>,
      <<15, 13,  25, 26,  35, 36,  45, 46,  55, 56,  65, 66,  75, 76,  85, 86>> }

\* bytes of register data a slave may answer with: all 16, or fewer
DataLengths == {16, 13, 12}

\* what the bytes of a ResponseFormat past the received ones may hold
\* (handleData leaves them as the buffer was)
Leftover == {0, 170}

\* The ResponseFormat handleData queues for the received bytes: data is the
\* whole buffer, length the number of bytes received.
Received(bytes, leftover) ==
    [data |-> bytes \o [i \in 1..(3 + 16 - Len(bytes)) |-> leftover],
     length |-> Len(bytes), deviceId |-> bytes[1], order |-> 1]

DiscoveryResponses(d) ==
    { Received(<<d, 3, n>> \o SubSeq(regs, 1, n), leftover) :
        n \in DataLengths, regs \in DescriptorData, leftover \in Leftover }

InitDiscovery ==
    /\ InitRest
    /\ fnPc = "input"
    /\ fnIn = [slaves |-> <<>>, response |-> Received(<<0, 0, 0>>, 0), slaveId |-> 0, n |-> 0]
    /\ fnOut = <<>>

\* The DataFormatter hands the next discovery response to
\* parseAndStoreDiscoveryResponse; fnOut is the registry.
ApplyParseAndStore ==
    /\ fnPc \in {"input", "parseAndStoreDiscoveryResponse"}
    /\ fnIn.n < MaxResponses
    /\ \E slaveId \in {1, 2} : \E response \in DiscoveryResponses(slaveId) :
         /\ fnIn' = [slaves |-> fnOut, response |-> response, slaveId |-> slaveId,
                     n |-> fnIn.n + 1]
         /\ fnOut' = parseAndStoreDiscoveryResponse(fnOut, response, slaveId)
    /\ fnPc' = "parseAndStoreDiscoveryResponse"
    /\ UNCHANGED <<apiVars, mainVars>>

NextDiscovery == ApplyParseAndStore

SpecDiscovery == InitDiscovery /\ [][NextDiscovery]_vars

\* register k (0-based) of the register data of a response, big-endian
RegisterOf(response, k) ==
    response.data[3 + 2 * k + 1] * 256 + response.data[3 + 2 * k + 2]

\* the response carries all 8 registers
FullResponse(response) == response.length - 3 >= 16

\* the descriptors of device d in a registry, as a set
SensorsOf(list, d) ==
    IF Registered(list, d)
    THEN {list[FindSlave(list, d)].sensors[j] :
             j \in DOMAIN list[FindSlave(list, d)].sensors}
    ELSE {}

\* C12: the registry holds each deviceId at most once and, within a device,
\* each sensorId at most once; a full discovery response leaves exactly one
\* descriptor for its sensorId, holding the values of that response, and
\* leaves the other sensors and the other devices as they were.
C12_RegistryUnique ==
    fnPc = "parseAndStoreDiscoveryResponse" =>
        /\ \A i, j \in DOMAIN fnOut : fnOut[i].slaveID = fnOut[j].slaveID => i = j
        /\ \A i \in DOMAIN fnOut : \A j, k \in DOMAIN fnOut[i].sensors :
              fnOut[i].sensors[j].sensorID = fnOut[i].sensors[k].sensorID => j = k
        /\ FullResponse(fnIn.response) =>
              LET id == RegisterOf(fnIn.response, 0) % 256
              IN  /\ \E sensor \in SensorsOf(fnOut, fnIn.slaveId) :
                        /\ sensor.sensorID = id
                        /\ sensor.maxRegisters = RegisterOf(fnIn.response, 3)
                        /\ sensor.samplingInterval = RegisterOf(fnIn.response, 4)
                  /\ {x \in SensorsOf(fnOut, fnIn.slaveId) : x.sensorID # id}
                        = {x \in SensorsOf(fnIn.slaves, fnIn.slaveId) : x.sensorID # id}
                  /\ \A d \in {1, 2} \ {fnIn.slaveId} :
                        /\ Registered(fnOut, d) = Registered(fnIn.slaves, d)
                        /\ SensorsOf(fnOut, d) = SensorsOf(fnIn.slaves, d)

\* The same device was discovered again with other values for a sensor it
\* already had, with another sensor or another device in the registry.
C12_Witness ==
    /\ fnPc = "parseAndStoreDiscoveryResponse"
    /\ FullResponse(fnIn.response)
    /\ \E x \in SensorsOf(fnIn.slaves, fnIn.slaveId) :
          /\ x.sensorID = RegisterOf(fnIn.response, 0) % 256
          /\ x.maxRegisters # RegisterOf(fnIn.response, 3)
    /\ \/ Cardinality(SensorsOf(fnIn.slaves, fnIn.slaveId)) = 2
       \/ Len(fnIn.slaves) = 2

\* C13: a discovery response with fewer than 16 bytes of register data
\* leaves the registry as it was.
C13_ShortResponseDiscarded ==
    (fnPc = "parseAndStoreDiscoveryResponse" /\ ~FullResponse(fnIn.response))
        => fnOut = fnIn.slaves

\* C14: the descriptor stored for a full response has sensorId = low byte of
\* reg0, numberOfChannels = low byte of reg1, startAddress = reg2,
\* maxRegisters = reg3, samplingInterval = reg4, dataType = low byte of
\* reg5, scale = low byte of reg6, compressedBytes = low byte of reg7.
C14_DescriptorDecoded ==
    (fnPc = "parseAndStoreDiscoveryResponse" /\ FullResponse(fnIn.response)) =>
        Sensor(RegisterOf(fnIn.response, 0) % 256,
               RegisterOf(fnIn.response, 1) % 256,
               RegisterOf(fnIn.response, 2),
               RegisterOf(fnIn.response, 3),
               RegisterOf(fnIn.response, 4),
               RegisterOf(fnIn.response, 5) % 256,
               RegisterOf(fnIn.response, 6) % 256,
               RegisterOf(fnIn.response, 7) % 256) \in SensorsOf(fnOut, fnIn.slaveId)

\* A full response was stored as the first descriptor of a device.
C14_Witness ==
    /\ fnPc = "parseAndStoreDiscoveryResponse"
    /\ FullResponse(fnIn.response)
    /\ fnIn.slaves = <<>>
    /\ Len(fnOut) = 1
    /\ RegisterOf(fnIn.response, 2) > 255

\* ---- formatAndEnqueueSensorData on drawn sampling responses ---------------
MaxRegs == 3
RegisterData == { <<18, 52, 171, 205, 255, 129>>, <<0, 1, 128, 0, 90, 165>> }
DataTypes == {0, 1, 2, 3}
Widths == {0, 1, 3, 8, 12, 16, 40}

\* One registered sensor, a sampling response of length bytes (3 of header)
\* in a buffer that holds leftover past them, and the request it answers.
FormatInputs ==
    { [slaves   |-> <<[slaveID |-> 1, consecutiveFails |-> 0,
                       sensors |-> <<Sensor(0, 1, 10, regs, 1000, type, 0, comp)>>]>>,
       response |-> [data     |-> <<1, 3, length - 3>> \o SubSeq(bytes, 1, length - 3)
                                    \o [i \in 1..(3 + 6 - length) |-> leftover],
                     length   |-> length, deviceId |-> 1, order |-> 1],
       request  |-> [slaveId |-> 1, sensorId |-> 0]] :
      regs \in 0..MaxRegs, type \in DataTypes, comp \in Widths,
      length \in 3..9, bytes \in RegisterData, leftover \in Leftover }

InitFormat == InitRest /\ fnPc = "input" /\ fnOut = <<>> /\ fnIn \in FormatInputs

ApplyFormat ==
    /\ fnPc = "input"
    /\ \E ub \in ShiftOutcomes :
         fnOut' = formatAndEnqueueSensorData(fnIn.slaves, fnIn.response, fnIn.request, ub)
    /\ fnPc' = "formatAndEnqueueSensorData"
    /\ UNCHANGED <<fnIn, apiVars, mainVars>>

NextFormat == ApplyFormat

SpecFormat == InitFormat /\ [][NextFormat]_vars

\* The parameters of the drawn sensor, and register k of the drawn response
\* as its two bytes: high, low.
FormatParams == fnIn.slaves[1].sensors[1]
HighLow(k) == <<fnIn.response.data[3 + 2 * k + 1], fnIn.response.data[3 + 2 * k + 2]>>

\* The complete registers the response holds, capped at maxRegisters.
AvailableBytes == fnIn.response.length - 3
Decoded == Min(FormatParams.maxRegisters, AvailableBytes \div 2)

RECURSIVE Concat(_, _)
Concat(f, n) == IF n = 0 THEN <<>> ELSE Concat(f, n - 1) \o f[n]

\* C16: with compressionWidth 0 every decoded register gives, in ascending
\* register order, its low byte for dataType 1 and its high byte then its
\* low byte for dataType 2 and for any other dataType.
C16_PlainByDataType ==
    (fnPc = "formatAndEnqueueSensorData" /\ FormatParams.compressedBytes = 0) =>
        fnOut.values =
            Concat([k \in 1..Decoded |->
                       IF FormatParams.dataType = 1 THEN <<HighLow(k - 1)[2]>>
                       ELSE HighLow(k - 1)], Decoded)

\* An uncompressed decode of two registers or more, of a dataType that is
\* neither 1 nor 2.
C16_Witness ==
    /\ fnPc = "formatAndEnqueueSensorData"
    /\ FormatParams.compressedBytes = 0
    /\ FormatParams.dataType = 3
    /\ Decoded >= 2
    /\ Len(fnOut.values) = 2 * Decoded
    /\ HighLow(0)[1] # HighLow(0)[2]

\* C17: a response shorter than maxRegisters * 2 data bytes is decoded for
\* exactly the complete registers it holds, floor(availableBytes / 2) capped
\* at maxRegisters, from bytes within the response length only, and the
\* decode reports success.
C17_PartialDecode ==
    (fnPc = "formatAndEnqueueSensorData" /\ AvailableBytes < FormatParams.maxRegisters * 2) =>
        /\ fnOut.ok
        /\ FormatParams.compressedBytes = 0 =>
             /\ Len(fnOut.values) = Decoded * (IF FormatParams.dataType = 1 THEN 1 ELSE 2)
             /\ \A k \in 1..Decoded :
                  /\ 3 + 2 * k <= fnIn.response.length
                  /\ IF FormatParams.dataType = 1
                     THEN fnOut.values[k] = HighLow(k - 1)[2]
                     ELSE SubSeq(fnOut.values, 2 * k - 1, 2 * k) = HighLow(k - 1)
        /\ (FormatParams.compressedBytes \in 1..16) =>
             Len(fnOut.values) = CeilDiv(Decoded * FormatParams.compressedBytes, 8)

\* A response with an odd number of data bytes, one complete register of the
\* three asked, the buffer holding other bytes past the response.
C17_Witness ==
    /\ fnPc = "formatAndEnqueueSensorData"
    /\ FormatParams.maxRegisters = 3
    /\ AvailableBytes = 3
    /\ fnIn.response.data[3 + 6] = 170
    /\ FormatParams.compressedBytes = 0
    /\ fnOut.ok
    /\ Len(fnOut.values) = 2

\* The bits of the bytes of out, the most significant bit of each byte first.
RECURSIVE BitsOf(_, _)
BitsOf(v, w) == IF w = 0 THEN <<>> ELSE Append(BitsOf(v \div 2, w - 1), v % 2)
StreamBits(out) == Concat([i \in 1..Len(out) |-> BitsOf(out[i], 8)], Len(out))

\* C18: with compressionWidth w > 0 the n decoded registers give exactly
\* ceil(n * w / 8) bytes whatever the dataType, and the bytes read most
\* significant bit first hold, w bits per register in register order, the
\* w low bits of each register; the bits past the last register are 0.
C18_PackedByWidth ==
    (fnPc = "formatAndEnqueueSensorData" /\ FormatParams.compressedBytes > 0) =>
        LET w == FormatParams.compressedBytes
            bits == StreamBits(fnOut.values)
        IN  /\ Len(fnOut.values) = CeilDiv(Decoded * w, 8)
            /\ \A k \in 1..Decoded :
                 SubSeq(bits, (k - 1) * w + 1, k * w) =
                     BitsOf(HighLow(k - 1)[1] * 256 + HighLow(k - 1)[2], w)
            /\ \A i \in (Decoded * w + 1)..Len(bits) : bits[i] = 0

\* ---- a BitPacker fed drawn pushes, then flushed ---------------------------
MaxPushes == 2
PushValues == {1, 3, 42435, 65535}
PushWidths == 1..16

\* fnIn: the (valor, nbits) pairs pushed so far; fnOut: the packer.
InitPacker == InitRest /\ fnPc = "BitPacker" /\ fnIn = <<>> /\ fnOut = NewPacker

PackerPush ==
    /\ fnPc = "BitPacker"
    /\ Len(fnIn) < MaxPushes
    /\ \E valor \in PushValues, nbits \in PushWidths, ub \in ShiftOutcomes :
         /\ fnIn' = Append(fnIn, [valor |-> valor, nbits |-> nbits])
         /\ fnOut' = BitPackerPush(fnOut, valor, nbits, ub)
    /\ UNCHANGED <<fnPc, apiVars, mainVars>>

PackerFlush ==
    /\ fnPc \in {"BitPacker", "flush"}
    /\ fnOut' = BitPackerFlush(fnOut)
    /\ fnPc' = IF fnPc = "BitPacker" THEN "flush" ELSE "flush again"
    /\ UNCHANGED <<fnIn, apiVars, mainVars>>

NextPacker == PackerPush \/ PackerFlush

SpecPacker == InitPacker /\ [][NextPacker]_vars

\* Bits pushed before element k of fnIn.
RECURSIVE BitsBefore(_)
BitsBefore(k) == IF k <= 1 THEN 0 ELSE BitsBefore(k - 1) + fnIn[k - 1].nbits

\* C19: after the flush, the output read most significant bit first with
\* the widths pushed gives valor & ((1 << nbits) - 1) for every element, in
\* order.
C19_RoundTrip ==
    fnPc = "flush" =>
        LET bits == StreamBits(fnOut.out)
        IN  \A k \in 1..Len(fnIn) :
              SubSeq(bits, BitsBefore(k) + 1, BitsBefore(k) + fnIn[k].nbits) =
                  BitsOf(fnIn[k].valor % Pow2(fnIn[k].nbits), fnIn[k].nbits)

\* Two pushes whose widths are no multiple of 8, the first one of a value
\* wider than its width, the second one crossing a byte boundary.
C19_Witness ==
    /\ fnPc = "flush"
    /\ Len(fnIn) = 2
    /\ fnIn[1].nbits = 3 /\ fnIn[1].valor = 65535
    /\ fnIn[2].nbits = 11 /\ fnIn[2].valor = 42435
    /\ Len(fnOut.out) = 2

\* C20 as stated: push(0b011, 2), push(0b1, 1), flush on an empty packer
\* gives exactly one byte, 0b0111_0000 (0x70).
C20_Example0x70 ==
    (fnPc = "flush" /\ fnIn = <<[valor |-> 3, nbits |-> 2], [valor |-> 1, nbits |-> 1]>>)
        => fnOut.out = <<112>>

\* C20 as the code has it: push(0b011, 2), push(0b1, 1), flush on an empty
\* packer gives exactly one byte, 0b1110_0000 (0xE0): the three bits 111
\* left-justified.
C20_Example0xE0 ==
    (fnPc = "flush" /\ fnIn = <<[valor |-> 3, nbits |-> 2], [valor |-> 1, nbits |-> 1]>>)
        => fnOut.out = <<224>>

\* The example has been run.
C20_Witness ==
    /\ fnPc = "flush"
    /\ fnIn = <<[valor |-> 3, nbits |-> 2], [valor |-> 1, nbits |-> 1]>>
    /\ Len(fnOut.out) = 1

\* C21: after every push the pending bit count is in 0..7; a flush emits one
\* byte when bits are pending, those bits left-justified above zero bits, and
\* no byte otherwise; after it the pending bit count and the accumulator are
\* 0, and a second flush emits nothing.
C21_FlushResets ==
    [][/\ fnOut'.bits_usados \in 0..7
       /\ fnPc' # fnPc =>
            /\ fnOut'.bits_usados = 0
            /\ fnOut'.buffer = 0
            /\ fnOut'.out = IF fnOut.bits_usados > 0
                            THEN Append(fnOut.out,
                                        fnOut.buffer * Pow2(8 - fnOut.bits_usados))
                            ELSE fnOut.out
            /\ fnOut.buffer < Pow2(fnOut.bits_usados)
            /\ fnPc' = "flush again" => fnOut'.out = fnOut.out]_vars

\* A second flush after a flush that emitted 5 pending bits.
C21_Witness ==
    /\ fnPc = "flush again"
    /\ Len(fnIn) = 2
    /\ (fnIn[1].nbits + fnIn[2].nbits) % 8 = 5
    /\ Len(fnOut.out) = (fnIn[1].nbits + fnIn[2].nbits) \div 8 + 1

\* ---- construirPayloadUnificado on drawn collections ------------------------
MaxSamples == 3
SampleIds == {0, 2, 5, 8}
Timestamps == {77, 1762190000}
MessageIds == {0, 255}

\* The registry of the drawn builds: device 1 with sensor 0 (18 registers on
\* 3 channels), sensor 2 (300 registers on 1 channel, bit-packed on 12 bits)
\* and sensor 5 (no channel); device 2 with sensor 0 (40 registers on 1
\* channel).
BuildRegistry ==
    << [slaveID |-> 1, consecutiveFails |-> 0,
        sensors |-> << Sensor(0, 3, 10, 18, 1000, 2, 0, 0),
                       Sensor(2, 1, 40, 300, 1000, 2, 0, 12),
                       Sensor(5, 0, 60, 4, 1000, 1, 0, 0) >>],
       [slaveID |-> 2, consecutiveFails |-> 0,
        sensors |-> << Sensor(0, 1, 10, 40, 1000, 2, 0, 0) >>] >>

\* The samples DataFormatter can have queued: device, sensor and the bytes.
Samples ==
    { [slaveId |-> d, sensorId |-> id,
       data |-> IF v = 1 THEN <<16 * d + id, 7>> ELSE <<16 * d + id, 9, 255>>] :
      d \in {1, 2}, id \in SampleIds, v \in {1, 2} }

RECURSIVE SeqsUpTo(_, _)
SeqsUpTo(S, n) ==
    IF n = 0 THEN {<<>>}
    ELSE LET shorter == SeqsUpTo(S, n - 1)
         IN  shorter \cup {Append(q, x) : q \in shorter, x \in S}

InitBuild ==
    /\ InitRest
    /\ fnPc = "input"
    /\ fnOut = <<>>
    /\ fnIn \in { [id_mensaje |-> id, collectedPayloads |-> c, slaves |-> BuildRegistry,
                   ts_s |-> ts] :
                  id \in MessageIds, c \in SeqsUpTo(Samples, MaxSamples), ts \in Timestamps }

ApplyBuild ==
    /\ fnPc = "input"
    /\ fnOut' = construirPayloadUnificado(fnIn.id_mensaje, fnIn.collectedPayloads,
                                          fnIn.slaves, fnIn.ts_s)
    /\ fnPc' = "construirPayloadUnificado"
    /\ UNCHANGED <<fnIn, apiVars, mainVars>>

NextBuild == ApplyBuild

SpecBuild == InitBuild /\ [][NextBuild]_vars

\* The collected samples of the build, the ids among them, bit b of a byte.
Collected == fnIn.collectedPayloads
CollectedIds == {Collected[i].sensorId : i \in DOMAIN Collected}
BitOf(byte, b) == (byte \div Pow2(b)) % 2
Built == fnPc = "construirPayloadUnificado"

\* The slots set in the activate byte of the built payload, their number,
\* and the position of slot s among them.
SlotsSet == {b \in 0..7 : BitOf(fnOut[6], b) = 1}
Popcount == Cardinality(SlotsSet)
RankOf(s) == Cardinality({b \in SlotsSet : b < s})

\* The sample collected last for sensor id s, and the data sizes of the last
\* samples of the ids of S added up.
LastSample(s) ==
    Collected[CHOOSE i \in DOMAIN Collected :
                /\ Collected[i].sensorId = s
                /\ \A j \in DOMAIN Collected : Collected[j].sensorId = s => j <= i]
RECURSIVE SumSizes(_)
SumSizes(S) ==
    IF S = {} THEN 0
    ELSE LET s == CHOOSE x \in S : TRUE
         IN  Len(LastSample(s).data) + SumSizes(S \ {s})

\* C22: bit s of the activate byte (byte 5, counting from 0) is set iff a
\* collected sample has sensorId s, for s in 0..7; the samples of other ids
\* set no bit and add no byte: the payload is as long as the header, the
\* length bytes and the data of the ids within 0..7 make it.
C22_ActivateByte ==
    Built =>
        /\ \A s \in 0..7 : (BitOf(fnOut[6], s) = 1) <=> (s \in CollectedIds)
        /\ fnOut[6] < 256
        /\ Len(fnOut) = 6 + Cardinality(CollectedIds \cap 0..7)
                          + SumSizes(CollectedIds \cap 0..7)

\* Samples of ids 5 and 8 and of one more slot: bit 5 is set, 8 has none.
C22_Witness ==
    /\ Built
    /\ {5, 8} \subseteq CollectedIds
    /\ Len(Collected) = 3
    /\ Popcount = 2

\* C23: the built payload is messageId, the timestamp on 4 bytes big-endian,
\* the activate byte, then one length byte per set bit and then one data
\* block per set bit, both in ascending slot order, each block the bytes of
\* that slot's sample; its length is 6 + popcount + the sizes of the blocks.
\* For sensor ids {0, 2, 5} the activate byte is 0b0010_0101.
C23_Layout ==
    Built =>
        /\ fnOut[1] = fnIn.id_mensaje
        /\ ((fnOut[2] * 256 + fnOut[3]) * 256 + fnOut[4]) * 256 + fnOut[5] = fnIn.ts_s
        /\ \A i \in 2..6 : fnOut[i] \in 0..255
        /\ Len(fnOut) = 6 + Popcount + SumSizes(SlotsSet)
        /\ \A s \in SlotsSet :
             LET start == 6 + Popcount + SumSizes({b \in SlotsSet : b < s})
             IN  SubSeq(fnOut, start + 1, start + Len(LastSample(s).data))
                   = LastSample(s).data
        /\ CollectedIds = {0, 2, 5} => (fnOut[6] = 37 /\ Popcount = 3)

\* Samples of sensors 5, 2, 0 collected in that order, with data of
\* different sizes.
C23_Witness ==
    /\ Built
    /\ Len(Collected) = 3
    /\ Collected[1].sensorId = 5 /\ Collected[2].sensorId = 2 /\ Collected[3].sensorId = 0
    /\ Len(Collected[1].data) # Len(Collected[3].data)
    /\ fnOut[6] = 37
    /\ fnIn.ts_s > 65536

\* C25: a build with no collected samples returns exactly 6 bytes:
\* messageId, the 4 timestamp bytes and an activate byte of 0.
C25_EmptyBuild ==
    (Built /\ Collected = <<>>) =>
        /\ Len(fnOut) = 6
        /\ fnOut[1] = fnIn.id_mensaje
        /\ ((fnOut[2] * 256 + fnOut[3]) * 256 + fnOut[4]) * 256 + fnOut[5] = fnIn.ts_s
        /\ fnOut[6] = 0

\* A build of no samples with messageId 255.
C25_Witness ==
    /\ Built
    /\ Collected = <<>>
    /\ fnIn.id_mensaje = 255
    /\ fnIn.ts_s > 65536

\* C26: when several collected samples have the same sensorId, the payload
\* has one length byte and one data block for that id, and the block is the
\* data of the sample collected last.
C26_LastWins ==
    Built =>
        \A s \in CollectedIds \cap 0..7 :
            (Cardinality({i \in DOMAIN Collected : Collected[i].sensorId = s}) > 1) =>
                LET start == 6 + Popcount + SumSizes({b \in SlotsSet : b < s})
                IN  /\ s \in SlotsSet
                    /\ Len(fnOut) = 6 + Popcount + SumSizes(SlotsSet)
                    /\ SubSeq(fnOut, start + 1, start + Len(LastSample(s).data))
                         = LastSample(s).data
                    /\ fnOut[6 + RankOf(s) + 1] =
                         LenByte(fnIn.slaves, LastSample(s))

\* Sensor 0 collected from device 1 and then from device 2, with other data.
C26_Witness ==
    /\ Built
    /\ Len(Collected) = 3
    /\ Collected[1].sensorId = 0 /\ Collected[1].slaveId = 1
    /\ Collected[3].sensorId = 0 /\ Collected[3].slaveId = 2
    /\ Collected[2].sensorId = 2
    /\ Len(Collected[1].data) # Len(Collected[3].data)
    /\ Popcount = 2

\* The descriptors the registry of the build holds for a sample's sensor.
DescriptorsOf(sample) ==
    { fnIn.slaves[i].sensors[j] :
        i \in {i \in DOMAIN fnIn.slaves : fnIn.slaves[i].slaveID = sample.slaveId},
        j \in {j \in 1..3 : \E i \in DOMAIN fnIn.slaves :
                               /\ fnIn.slaves[i].slaveID = sample.slaveId
                               /\ j \in DOMAIN fnIn.slaves[i].sensors
                               /\ fnIn.slaves[i].sensors[j].sensorID = sample.sensorId} }
RegistersPerChannelOf(sample) ==
    IF \E d \in DescriptorsOf(sample) : d.numberOfChannels > 0
    THEN LET d == CHOOSE d \in DescriptorsOf(sample) : TRUE
         IN  d.maxRegisters \div d.numberOfChannels
    ELSE 0
BitPacked(sample) == \E d \in DescriptorsOf(sample) : d.compressedBytes > 0

\* C24: the length byte of every included sample has registersPerChannel &
\* 0x1F in its low 5 bits (0 for a sensor that is not in the registry or has
\* no channel) and bit 7 set exactly when the sensor is bit-packed.
C24_LengthByte ==
    Built =>
        \A s \in SlotsSet :
            LET len_byte == fnOut[6 + RankOf(s) + 1]
            IN  /\ len_byte % 32 = RegistersPerChannelOf(LastSample(s)) % 32
                /\ (BitOf(len_byte, 7) = 1) <=> BitPacked(LastSample(s))

\* ---- DataFormatter's samples, DataAggregatorTask and tareaLoRa -------------
MaxBuilt == 12
FRAGMENT_QUEUE_LEN == 10
AggregatorClock == 77

\* The sample DataFormatter queues in this part: sensor 0 of device 1.
AggSample == [slaveId |-> 1, sensorId |-> 0, data |-> <<17, 7>>]

\* fnIn holds the state of the three tasks: the registry, the two queues,
\* ID_MSG of DataAggregatorTask, where tareaLoRa is and the semaphore
\* semaforoEnvioCompleto.  fnOut is history: the samples the last cycle
\* collected, the number of payloads built in this run, the id of the
\* payload queued last for tareaLoRa (-1 for none), and whether
\* DataFormatter had to drop a sample.  The run starts after setup(), or at
\* the state the tasks are in when 250 payloads have been built and sent.
InitAggregator ==
    /\ InitRest
    /\ fnPc = "setup"
    /\ \E start \in {0, 250} :
         /\ fnIn = [slaves |-> BuildRegistry,
                    queueSensorDataPayload |-> <<>>,
                    ID_MSG |-> start,
                    queueFragmentos |-> <<>>,
                    loraPc |-> "receive",
                    semaforoEnvioCompleto |-> "given"]
         /\ fnOut = [collectedPayloads |-> <<>>, built |-> 0,
                     lastQueued |-> start - 1, sampleDropped |-> FALSE]

\* Lines 1192-1199: the queue is emptied into collectedPayloads.
AggregatorCollect(queue) == [collected |-> queue, queue |-> <<>>]

\* a counter that advances on every cycle
NextIdMsg_Always(ID_MSG, collected) == (ID_MSG + 1) % 256

\* ID_MSG of the next cycle: ID_MSG++ on a uint8_t, only when a payload is
\* built (line 1206).
NextIdMsg(ID_MSG, collected) == IF collected # <<>> THEN (ID_MSG + 1) % 256 ELSE ID_MSG

\* DataFormatter, REQUEST_SAMPLING with a decoded sample (lines 808-824):
\* xQueueSend(queueSensorDataPayload, &payload, 10 ms); the sample is dropped
\* when the queue stays full.
FormatterEnqueue ==
    /\ fnIn' = [fnIn EXCEPT !.queueSensorDataPayload = QueueSend(@, AggSample, QUEUE_LEN)]
    /\ fnOut' = [fnOut EXCEPT !.sampleDropped =
                                 @ \/ Len(fnIn.queueSensorDataPayload) >= QUEUE_LEN]
    /\ fnPc' = "DataFormatter"
    /\ UNCHANGED <<apiVars, mainVars>>

\* One cycle of DataAggregatorTask (lines 1187-1225).
AggregatorCycle ==
    /\ fnOut.built < MaxBuilt
    /\ LET c == AggregatorCollect(fnIn.queueSensorDataPayload)
           unifiedPayload == construirPayloadUnificado(fnIn.ID_MSG, c.collected,
                                                       fnIn.slaves, AggregatorClock)
           loraFragment == SubSeq(unifiedPayload, 1,
                                  Min(Len(unifiedPayload), LORA_PAYLOAD_MAX))
           sent == c.collected # <<>> /\ Len(fnIn.queueFragmentos) < FRAGMENT_QUEUE_LEN
       IN  /\ fnIn' = [fnIn EXCEPT
                         !.queueSensorDataPayload = c.queue,
                         !.ID_MSG = NextIdMsg(fnIn.ID_MSG, c.collected),
                         !.queueFragmentos = IF sent THEN Append(@, loraFragment) ELSE @]
           /\ fnOut' = [collectedPayloads |-> c.collected,
                        built |-> IF c.collected # <<>> THEN fnOut.built + 1
                                  ELSE fnOut.built,
                        lastQueued |-> IF sent THEN loraFragment[1] ELSE fnOut.lastQueued,
                        sampleDropped |-> fnOut.sampleDropped]
    /\ fnPc' = "DataAggregatorTask"
    /\ UNCHANGED <<apiVars, mainVars>>

\* tareaLoRa: xQueueReceive(queueFragmentos, &frag, portMAX_DELAY).
LoRaReceive ==
    /\ fnIn.loraPc = "receive"
    /\ fnIn.queueFragmentos # <<>>
    /\ fnIn' = [fnIn EXCEPT !.queueFragmentos = Tail(@), !.loraPc = "take"]
    /\ fnPc' = "tareaLoRa"
    /\ UNCHANGED <<fnOut, apiVars, mainVars>>

\* tareaLoRa: xSemaphoreTake(semaforoEnvioCompleto, portMAX_DELAY), then
\* LMIC_setTxData2.
LoRaTransmit ==
    /\ fnIn.loraPc = "take"
    /\ fnIn.semaforoEnvioCompleto = "given"
    /\ fnIn' = [fnIn EXCEPT !.semaforoEnvioCompleto = "taken", !.loraPc = "receive"]
    /\ fnPc' = "tareaLoRa"
    /\ UNCHANGED <<fnOut, apiVars, mainVars>>

\* onEvent(EV_TXCOMPLETE): xSemaphoreGive(semaforoEnvioCompleto).
TxComplete ==
    /\ fnIn.semaforoEnvioCompleto = "taken"
    /\ fnIn' = [fnIn EXCEPT !.semaforoEnvioCompleto = "given"]
    /\ fnPc' = "onEvent"
    /\ UNCHANGED <<fnOut, apiVars, mainVars>>

NextAggregator ==
    \/ FormatterEnqueue
    \/ AggregatorCycle
    \/ LoRaReceive
    \/ LoRaTransmit
    \/ TxComplete

SpecAggregator == InitAggregator /\ [][NextAggregator]_vars

\* C27: every sample DataFormatter produces is collected by exactly one
\* aggregation cycle: producing a sample puts it on the queue, and a cycle
\* collects exactly the samples on the queue and leaves the queue empty.
C27_ConsumedOnce ==
    [][/\ fnPc' = "DataFormatter" =>
            fnIn'.queueSensorDataPayload = Append(fnIn.queueSensorDataPayload, AggSample)
       /\ fnPc' = "DataAggregatorTask" =>
            /\ fnOut'.collectedPayloads = fnIn.queueSensorDataPayload
            /\ fnIn'.queueSensorDataPayload = <<>>]_vars

\* C28 as stated: the first payload the aggregator emits has messageId 0 and
\* every later one the messageId of the payload emitted before it plus 1
\* modulo 256; a cycle that collected nothing emits nothing and leaves the
\* counter.
C28_MessageIdPerEmitted ==
    [][fnPc' = "DataAggregatorTask" =>
         /\ fnOut'.collectedPayloads = <<>> =>
              /\ fnIn'.queueFragmentos = fnIn.queueFragmentos
              /\ fnIn'.ID_MSG = fnIn.ID_MSG
         /\ fnIn'.queueFragmentos # fnIn.queueFragmentos =>
              fnIn'.queueFragmentos[Len(fnIn'.queueFragmentos)][1]
                  = (fnOut.lastQueued + 1) % 256]_vars

\* C28 as the code has it: the counter starts at 0 and advances by 1 modulo
\* 256 with every payload built, that is with every cycle that collected a
\* sample, whether or not the payload could be queued for tareaLoRa; a
\* payload that is queued carries the counter's value before the advance; a
\* cycle that collected nothing queues nothing and leaves the counter.
C28_MessageIdPerBuild ==
    [][fnPc' = "DataAggregatorTask" =>
         /\ fnOut'.collectedPayloads = <<>> =>
              /\ fnIn'.queueFragmentos = fnIn.queueFragmentos
              /\ fnIn'.ID_MSG = fnIn.ID_MSG
         /\ fnOut'.collectedPayloads # <<>> =>
              fnIn'.ID_MSG = (fnIn.ID_MSG + 1) % 256
         /\ fnIn'.queueFragmentos # fnIn.queueFragmentos =>
              /\ fnIn'.queueFragmentos[Len(fnIn'.queueFragmentos)][1] = fnIn.ID_MSG
              /\ (fnOut.built = 0 /\ fnOut.lastQueued = -1) =>
                   fnIn'.queueFragmentos[Len(fnIn'.queueFragmentos)][1] = 0]_vars

\* The payload queued after the counter wrapped: id 0 follows id 255.
C28_Witness ==
    /\ fnPc = "DataAggregatorTask"
    /\ fnOut.collectedPayloads # <<>>
    /\ fnOut.lastQueued = 0
    /\ fnOut.built = 7
    /\ fnIn.ID_MSG = 1

\* ---- the loop of DataRequestScheduler on drawn schedules --------------------
MaxMillis == 30
MaxLag == 2
Intervals == {0, 3, 25}

\* The schedules initScheduler can have left at time 0: none, one or two
\* sensors of device 1.
Schedules ==
    {<<>>}
    \cup { <<[slaveID |-> 1, sensorID |-> 0, samplingInterval |-> a, nextSampleTime |-> 0]>> :
           a \in Intervals }
    \cup { <<[slaveID |-> 1, sensorID |-> 0, samplingInterval |-> a, nextSampleTime |-> 0],
             [slaveID |-> 1, sensorID |-> 2, samplingInterval |-> b, nextSampleTime |-> 0]>> :
           a \in Intervals, b \in Intervals }

\* fnIn: the schedule, the scheduler's event queue and millis().  fnOut: the
\* last pass: the list and queue it found, its two readings of millis(), the
\* result of its scan and its sleep.
InitScheduler ==
    /\ InitRest
    /\ fnPc = "setup"
    /\ fnOut = <<>>
    /\ \E list \in Schedules, t \in 0..MaxLag :
         fnIn = [scheduleList |-> list, queueEventos_Scheduler |-> <<>>, millis |-> t]

\* One turn of the while loop (lines 384-425): the pass under the mutex at
\* the time read at the top, the second reading lag ms later, the sleep.
SchedulerLoop ==
    /\ fnIn.millis <= MaxMillis
    /\ \E lag \in 0..MaxLag :
         LET scan == SchedulerScan(fnIn.scheduleList, 1, fnIn.millis,
                                   fnIn.queueEventos_Scheduler)
             sleepTime == SleepTime(scan.list, fnIn.millis + lag)
         IN  /\ fnOut' = [list |-> fnIn.scheduleList,
                          queue |-> fnIn.queueEventos_Scheduler,
                          now |-> fnIn.millis, scan |-> scan,
                          now2 |-> fnIn.millis + lag, sleepTime |-> sleepTime]
             /\ fnIn' = [scheduleList |-> scan.list,
                         queueEventos_Scheduler |-> scan.queue,
                         millis |-> fnIn.millis + lag + sleepTime]
    /\ fnPc' = "DataRequestScheduler"
    /\ UNCHANGED <<apiVars, mainVars>>

\* EventManager takes the event at the head of the scheduler's queue.
SchedulerEventTaken ==
    /\ fnIn.queueEventos_Scheduler # <<>>
    /\ fnIn' = [fnIn EXCEPT !.queueEventos_Scheduler = Tail(@)]
    /\ fnPc' = "EventManager"
    /\ UNCHANGED <<fnOut, apiVars, mainVars>>

NextScheduler == SchedulerLoop \/ SchedulerEventTaken

SpecScheduler == InitScheduler /\ [][NextScheduler]_vars

\* The entries of the last pass that were due, and their events in order.
Passed == fnPc = "DataRequestScheduler" \/ (fnPc = "EventManager" /\ fnOut # <<>>)
DueEntries == {i \in DOMAIN fnOut.list : fnOut.list[i].nextSampleTime <= fnOut.now}
RECURSIVE DueEvents(_)
DueEvents(i) ==
    IF i > Len(fnOut.list) THEN <<>>
    ELSE (IF i \in DueEntries
          THEN <<[slaveId |-> fnOut.list[i].slaveID, sensorID |-> fnOut.list[i].sensorID,
                  order |-> 1]>>
          ELSE <<>>) \o DueEvents(i + 1)

\* C29: in a pass every entry with nextSampleTime <= now has its event sent
\* once, in list order, and its nextSampleTime set to now + its interval,
\* whether or not the queue took the event; the other entries are unchanged.
C29_DueRescheduled ==
    Passed =>
        /\ Len(fnOut.scan.list) = Len(fnOut.list)
        /\ \A i \in DOMAIN fnOut.list :
             fnOut.scan.list[i] =
                 IF i \in DueEntries
                 THEN [fnOut.list[i] EXCEPT
                         !.nextSampleTime = fnOut.now + fnOut.list[i].samplingInterval]
                 ELSE fnOut.list[i]
        /\ fnOut.scan.queue =
             SubSeq(fnOut.queue \o DueEvents(1), 1,
                    Min(QUEUE_LEN, Len(fnOut.queue) + Cardinality(DueEntries)))

\* A pass that found the queue full, one entry due and one not.
C29_Witness ==
    /\ Passed
    /\ Len(fnOut.queue) = QUEUE_LEN
    /\ Len(fnOut.list) = 2
    /\ Cardinality(DueEntries) = 1
    /\ fnOut.scan.list # fnOut.list

\* The difference the sleep is computed from.
Remaining == NextEventTime(fnOut.scan.list) - fnOut.now2

\* C30 as stated: the sleep after a pass is the smallest nextSampleTime of
\* the schedule minus the current time, 1 when that difference is not
\* positive, and 1000 ms when the schedule is empty.
C30_SleepMinimumOne ==
    Passed =>
        fnOut.sleepTime =
            IF fnOut.scan.list = <<>> THEN 1000
            ELSE IF Remaining > 0 THEN Remaining ELSE 1

\* C30 as the code has it: the sleep after a pass is the smallest
\* nextSampleTime of the schedule minus the current time, 10 ms when that
\* difference is not positive, and 1000 ms when the schedule is empty.
C30_SleepMinimumTen ==
    Passed =>
        fnOut.sleepTime =
            IF fnOut.scan.list = <<>> THEN 1000
            ELSE IF Remaining > 0 THEN Remaining ELSE 10

\* A pass whose second reading of the time is past the next due time of the
\* second entry, the first one being due later.
C30_Witness ==
    /\ Passed
    /\ Len(fnOut.scan.list) = 2
    /\ fnOut.scan.list[2].nextSampleTime < fnOut.scan.list[1].nextSampleTime
    /\ Remaining < 0
    /\ fnOut.sleepTime = 10

(***************************************************************************)
(* Claims about concurrency: the transport, the lock and the ring.         *)
(***************************************************************************)

\* C31: at most one request is in flight at the transport at any time: a
\* request is submitted only when the transport holds no other request and
\* no response of an earlier request waits to be consumed.
C31_SingleInFlight ==
    Len(mbRequests) + Len(queueRespuestas) <= 1

\* C31, the transport alone: it never holds two requests.
C31_TransportHoldsOne == Len(mbRequests) <= 1

(***************************************************************************)
(* The tasks that touch slaveList and scheduleList, statement by           *)
(* statement: DataFormatter storing a discovery response, handleError      *)
(* counting a timeout and evicting, initScheduler called by                *)
(* initialDiscoveryTask and by handleError, and the pass of                *)
(* DataRequestScheduler.  fnOut holds each task's position and locals.     *)
(***************************************************************************)
\* discovery responses the transport delivers
MaxDiscoveries == 2
\* timeouts the transport reports
MaxErrors == 3
\* last value of millis() these tasks see
MaxTaskTime == 4

Tasks == {"DataFormatter", "handleError", "initialDiscoveryTask", "Scheduler"}

InitTasks ==
    /\ InitApi
    /\ InitMain
    /\ literalShared = TRUE
    /\ fnPc = "tasks"
    /\ fnIn = <<>>
    /\ fnOut = [pc |-> [DataFormatter |-> "xQueueReceive", handleError |-> "idle",
                        initialDiscoveryTask |-> "loop", Scheduler |-> "vTaskDelay"],
                slaveId |-> 0,        \* DataFormatter: request->slaveId
                failedSlaveId |-> 0,  \* handleError: failedSlaveId
                t |-> 0,              \* DataRequestScheduler: now
                item |-> 0,           \* DataRequestScheduler: position of the scan
                responses |-> 0,      \* discovery responses delivered so far
                errors |-> 0]         \* timeouts reported so far

\* what these tasks leave alone
TasksFrame ==
    UNCHANGED <<apiVars, requestBuffer, requestHead, requestToken,
                queueEventos_Peripheral, queueRespuestas, queueSensorDataPayload,
                mbRequests, discoveryPc, errorPc, literalShared, failRun,
                discoverReturn, fnPc, fnIn>>

At(task, where) == fnOut.pc[task] = where

Goto(task, where) == [fnOut EXCEPT !.pc[task] = where]

\* The ResponseFormat handleData makes of device d's answer to the discovery read.
DiscoveryResponse(d) ==
    LET response == SlaveResponse(d, 0, 8)
    IN  [data |-> response, length |-> Len(response), deviceId |-> d, order |-> 0]

\* DataFormatter, lines 759-798: a discovery response of device d is
\* received and its request found; parseAndStoreDiscoveryResponse is entered.
FormatterReceive ==
    /\ At("DataFormatter", "xQueueReceive")
    /\ fnOut.responses < MaxDiscoveries
    /\ \E d \in 1..BusDevices :
         fnOut' = [Goto("DataFormatter", "parseAndStoreDiscoveryResponse")
                     EXCEPT !.slaveId = d, !.responses = @ + 1]
    /\ UNCHANGED <<slaveList, scheduleList, schedulerMutex, queueEventos_Scheduler, now>>
    /\ TasksFrame

\* parseAndStoreDiscoveryResponse, lines 506-532: the search of slaveList and
\* the push_back or overwrite; no lock is taken.
FormatterStore ==
    /\ At("DataFormatter", "parseAndStoreDiscoveryResponse")
    /\ slaveList' = parseAndStoreDiscoveryResponse(slaveList,
                        DiscoveryResponse(fnOut.slaveId), fnOut.slaveId)
    /\ fnOut' = Goto("DataFormatter", "xQueueReceive")
    /\ UNCHANGED <<scheduleList, schedulerMutex, queueEventos_Scheduler, now>>
    /\ TasksFrame

\* handleError, lines 268-278: the transport reports TIMEOUT for a request
\* to device d and the request is found in the ring.
HandleErrorEnter ==
    /\ At("handleError", "idle")
    /\ fnOut.errors < MaxErrors
    /\ \E d \in 1..BusDevices :
         fnOut' = [Goto("handleError", "find_if")
                     EXCEPT !.failedSlaveId = d, !.errors = @ + 1]
    /\ UNCHANGED <<slaveList, scheduleList, schedulerMutex, queueEventos_Scheduler, now>>
    /\ TasksFrame

\* handleError, lines 281-292: the search of slaveList, consecutiveFails++
\* and, at 3, slaveList.erase; no lock is taken.
HandleErrorCount ==
    /\ At("handleError", "find_if")
    /\ LET slaveIt == FindSlave(slaveList, fnOut.failedSlaveId)
       IN  IF slaveIt = 0
           THEN /\ fnOut' = Goto("handleError", "idle")
                /\ UNCHANGED slaveList
           ELSE IF (slaveList[slaveIt].consecutiveFails + 1) % 256 < EVICT_FAILS
           THEN /\ slaveList' = [slaveList EXCEPT
                                   ![slaveIt].consecutiveFails = (@ + 1) % 256]
                /\ fnOut' = Goto("handleError", "idle")
           ELSE /\ slaveList' = RemoveAt(slaveList, slaveIt)
                /\ fnOut' = Goto("handleError", "xSemaphoreTake")
    /\ UNCHANGED <<scheduleList, schedulerMutex, queueEventos_Scheduler, now>>
    /\ TasksFrame

\* handleError, line 296: xSemaphoreTake(schedulerMutex, 100 ms) succeeds.
HandleErrorTake ==
    /\ At("handleError", "xSemaphoreTake")
    /\ schedulerMutex = "free"
    /\ schedulerMutex' = "handleError"
    /\ fnOut' = Goto("handleError", "erase")
    /\ UNCHANGED <<slaveList, scheduleList, queueEventos_Scheduler, now>>
    /\ TasksFrame

\* handleError, lines 296, 305-307: the 100 ms pass with the mutex held by
\* another task; the else branch prints and the callback returns.
HandleErrorTimeout ==
    /\ At("handleError", "xSemaphoreTake")
    /\ schedulerMutex # "free"
    /\ fnOut' = Goto("handleError", "idle")
    /\ UNCHANGED <<slaveList, scheduleList, schedulerMutex, queueEventos_Scheduler, now>>
    /\ TasksFrame

\* scheduleList without the entries of a device (lines 297-301)
EraseSlave(list, failedSlaveId) ==
    SelectSeq(list, LAMBDA s : s.slaveID # failedSlaveId)

\* handleError, lines 297-303: the device's entries are erased, the mutex is
\* given back, initScheduler() is called.
HandleErrorErase ==
    /\ At("handleError", "erase")
    /\ scheduleList' = EraseSlave(scheduleList, fnOut.failedSlaveId)
    /\ schedulerMutex' = "free"
    /\ fnOut' = Goto("handleError", "initScheduler")
    /\ UNCHANGED <<slaveList, queueEventos_Scheduler, now>>
    /\ TasksFrame

\* initScheduler, line 206: xSemaphoreTake(schedulerMutex, portMAX_DELAY).
InitSchedulerTake(task) ==
    /\ At(task, "initScheduler")
    /\ schedulerMutex = "free"
    /\ schedulerMutex' = task
    /\ fnOut' = Goto(task, "rebuild")
    /\ UNCHANGED <<slaveList, scheduleList, queueEventos_Scheduler, now>>
    /\ TasksFrame

\* initScheduler, lines 207-234: scheduleList is cleared and filled from
\* slaveList, then the mutex is given back.
InitSchedulerRebuild(task, next) ==
    /\ At(task, "rebuild")
    /\ scheduleList' = initScheduler(slaveList, now)
    /\ schedulerMutex' = "free"
    /\ fnOut' = Goto(task, next)
    /\ UNCHANGED <<slaveList, queueEventos_Scheduler, now>>
    /\ TasksFrame

HandleErrorInitTake == InitSchedulerTake("handleError")

HandleErrorRebuild == InitSchedulerRebuild("handleError", "idle")

\* initialDiscoveryTask, lines 357-367: the loop over the devices is over
\* and initScheduler() is called.
InitialDiscoveryLoopEnd ==
    /\ At("initialDiscoveryTask", "loop")
    /\ fnOut' = Goto("initialDiscoveryTask", "initScheduler")
    /\ UNCHANGED <<slaveList, scheduleList, schedulerMutex, queueEventos_Scheduler, now>>
    /\ TasksFrame

InitialDiscoveryTake == InitSchedulerTake("initialDiscoveryTask")

\* ... and vTaskDelete(NULL), line 370
InitialDiscoveryRebuild == InitSchedulerRebuild("initialDiscoveryTask", "vTaskDelete")

\* DataRequestScheduler, lines 384-385: the delay is over, millis() is read.
SchedulerWake ==
    /\ At("Scheduler", "vTaskDelay")
    /\ fnOut' = [Goto("Scheduler", "xSemaphoreTake") EXCEPT !.t = now]
    /\ UNCHANGED <<slaveList, scheduleList, schedulerMutex, queueEventos_Scheduler, now>>
    /\ TasksFrame

\* DataRequestScheduler, line 388: xSemaphoreTake(schedulerMutex, portMAX_DELAY).
SchedulerTakeMutex ==
    /\ At("Scheduler", "xSemaphoreTake")
    /\ schedulerMutex = "free"
    /\ schedulerMutex' = "Scheduler"
    /\ fnOut' = [Goto("Scheduler", "for") EXCEPT !.item = 1]
    /\ UNCHANGED <<slaveList, scheduleList, queueEventos_Scheduler, now>>
    /\ TasksFrame

\* DataRequestScheduler, lines 390-394 and 404-422: the next entry of the
\* list; a due one goes to xQueueSend; after the last one (or with an empty
\* list) the sleep is computed and the mutex given back.
SchedulerItem ==
    /\ At("Scheduler", "for")
    /\ IF fnOut.item > Len(scheduleList)
       THEN /\ schedulerMutex' = "free"
            /\ fnOut' = Goto("Scheduler", "vTaskDelay")
       ELSE /\ UNCHANGED schedulerMutex
            /\ fnOut' = IF fnOut.t >= scheduleList[fnOut.item].nextSampleTime
                        THEN Goto("Scheduler", "xQueueSend")
                        ELSE [fnOut EXCEPT !.item = @ + 1]
    /\ UNCHANGED <<slaveList, scheduleList, queueEventos_Scheduler, now>>
    /\ TasksFrame

\* DataRequestScheduler, lines 396-401: xQueueSend(queueEventos_Scheduler,
\* &event, 10 ms) returns (with a full queue: after the 10 ms, the event
\* lost) and the entry is rescheduled.
SchedulerSend ==
    /\ At("Scheduler", "xQueueSend")
    /\ LET entry == scheduleList[fnOut.item]
       IN  /\ queueEventos_Scheduler' =
                QueueSend(queueEventos_Scheduler,
                          [slaveId |-> entry.slaveID, sensorID |-> entry.sensorID,
                           order |-> 1], QUEUE_LEN)
           /\ scheduleList' = [scheduleList EXCEPT ![fnOut.item].nextSampleTime =
                                   fnOut.t + entry.samplingInterval]
    /\ fnOut' = [Goto("Scheduler", "for") EXCEPT !.item = @ + 1]
    /\ UNCHANGED <<slaveList, schedulerMutex, now>>
    /\ TasksFrame

\* EventManager, line 551: the event at the head of the scheduler's queue is taken.
EventManagerReceive ==
    /\ queueEventos_Scheduler # <<>>
    /\ queueEventos_Scheduler' = Tail(queueEventos_Scheduler)
    /\ UNCHANGED <<slaveList, scheduleList, schedulerMutex, now, fnOut>>
    /\ TasksFrame

\* millis() advances.
TasksTick ==
    /\ now < MaxTaskTime
    /\ now' = now + 1
    /\ UNCHANGED <<slaveList, scheduleList, schedulerMutex, queueEventos_Scheduler, fnOut>>
    /\ TasksFrame

NextTasks ==
    \/ FormatterReceive
    \/ FormatterStore
    \/ HandleErrorEnter
    \/ HandleErrorCount
    \/ HandleErrorTake
    \/ HandleErrorTimeout
    \/ HandleErrorErase
    \/ HandleErrorInitTake
    \/ HandleErrorRebuild
    \/ InitialDiscoveryLoopEnd
    \/ InitialDiscoveryTake
    \/ InitialDiscoveryRebuild
    \/ SchedulerWake
    \/ SchedulerTakeMutex
    \/ SchedulerItem
    \/ SchedulerSend
    \/ EventManagerReceive
    \/ TasksTick

SpecTasks == InitTasks /\ [][NextTasks]_vars

\* Every task runs on, and a timed wait ends.
FairSpecTasks ==
    /\ SpecTasks
    /\ WF_vars(HandleErrorTake \/ HandleErrorTimeout)
    /\ WF_vars(HandleErrorErase)
    /\ WF_vars(HandleErrorInitTake)
    /\ WF_vars(HandleErrorRebuild)
    /\ WF_vars(InitialDiscoveryTake)
    /\ WF_vars(InitialDiscoveryRebuild)
    /\ WF_vars(SchedulerTakeMutex)
    /\ WF_vars(SchedulerItem)
    /\ WF_vars(SchedulerSend)

\* ---- who touches which list ------------------------------------------------
\* the tasks inside a stretch of code that writes slaveList
WritesSlaveList ==
    { task \in Tasks :
        \/ task = "DataFormatter" /\ At(task, "parseAndStoreDiscoveryResponse")
        \/ task = "handleError" /\ At(task, "find_if") }

\* the tasks inside the loops of initScheduler that read slaveList
ReadsSlaveList == { task \in Tasks : At(task, "rebuild") }

\* the tasks inside a stretch of code that reads or writes scheduleList
UsesScheduleList ==
    { task \in Tasks : fnOut.pc[task] \in {"erase", "rebuild", "for", "xQueueSend"} }

\* C32: the accesses to the registry lists are serialized by one lock: no
\* two of discovery-response processing, the error callback and the
\* schedule rebuild are inside slaveList or scheduleList at the same time
\* with one of them writing.
C32_RegistrySerialized ==
    /\ \A a \in WritesSlaveList :
         \A b \in (WritesSlaveList \cup ReadsSlaveList) : a = b
    /\ \A a \in UsesScheduleList : \A b \in UsesScheduleList : a = b

\* C32, scheduleList alone: whoever is inside it holds schedulerMutex.
C32_ScheduleUnderMutex ==
    \A task \in UsesScheduleList : schedulerMutex = task

\* the task is inside xQueueSend with the queue full: it blocks until the
\* 10 ms of the call have passed
BlockedOnSend(task) ==
    /\ At(task, "xQueueSend")
    /\ Len(queueEventos_Scheduler) = QUEUE_LEN

\* the task is about to call xSemaphoreTake(schedulerMutex, ...)
AsksForMutex(task) == fnOut.pc[task] \in {"xSemaphoreTake", "initScheduler"}

\* C33: a task that holds schedulerMutex only manipulates the lists: it is
\* never blocked in a queue send and never asks for the mutex again.
C33_LockOnlyForLists ==
    \A task \in Tasks :
        schedulerMutex = task => (~BlockedOnSend(task) /\ ~AsksForMutex(task))

\* C33, the part about the mutex itself: its holder never asks for it again.
C33_NoSecondTake ==
    \A task \in Tasks : schedulerMutex = task => ~AsksForMutex(task)

\* C33, the consequence: a mutex that was taken is given back.
C33_LockReleased == (schedulerMutex # "free") ~> (schedulerMutex = "free")

(***************************************************************************)
(* The pending-request ring between EventManager, the transport's          *)
(* callbacks and DataFormatter.  EventManager's turn is taken in two       *)
(* steps, MB.addRequest and then addRequest on the ring, and the token     *)
(* counter also starts just below its wrap.  Time is not modelled: any     *)
(* schedule entry may be the one that is due.  fnOut holds EventManager's  *)
(* locals and the history of what the transport repeated.                  *)
(***************************************************************************)
\* sampling events the scheduler sends
MaxEvents == 1
\* callbacks the transport makes a second time
MaxRepeats == 1

\* requestToken after setup, and when the last token was 0xFFFFFFFF: the
\* next ++ wraps the uint32_t
TokenStarts == {0, -1}

\* the registry once every device on the bus has answered its discovery read
RingRegistry ==
    [d \in 1..BusDevices |->
        [slaveID |-> d, sensors |-> <<ParseSensor(DiscoveryResponse(d))>>,
         consecutiveFails |-> 0]]

\* a slot of a request that was answered and consumed
ConsumedRequest == [ZeroRequest EXCEPT !.slaveId = 1, !.functionCode = 3,
                                       !.type = "REQUEST_SAMPLING"]

\* EventManager's locals at the top of its loop (lines 544-548)
EventManagerLocals ==
    [pc |-> "loop", event |-> [slaveId |-> 0, sensorID |-> 0, order |-> 0],
     requestSent |-> FALSE, functionCode |-> 0, err |-> "SUCCESS",
     reqType |-> "REQUEST_UNKNOWN"]

InitRing ==
    /\ InitApi
    /\ literalShared \in BOOLEAN
    /\ fnPc = "tasks"
    /\ fnIn = <<>>
    /\ fnOut = [em |-> EventManagerLocals, events |-> 0, repeats |-> 0, repeated |-> {}]
    /\ schedulerMutex = "free"
    /\ requestHead = 0
    /\ queueEventos_Peripheral = <<>>
    /\ queueEventos_Scheduler = <<>>
    /\ queueRespuestas = <<>>
    /\ queueSensorDataPayload = <<>>
    /\ mbRequests = <<>>
    /\ errorPc = NotWaiting
    /\ now = 0
    /\ failRun = [d \in DeviceIds |-> 0]
    /\ requestToken \in TokenStarts
    /\ IF requestToken = 0
       THEN \* setup() has just run
            /\ slaveList = <<>>
            /\ scheduleList = <<>>
            /\ requestBuffer = [i \in 0..(MAX_REQUESTS - 1) |-> ZeroRequest]
            /\ discoveryPc = 0
            /\ discoverReturn = [d \in DeviceIds |-> "none"]
       ELSE \* discovery is long over, every request so far was consumed
            /\ slaveList = RingRegistry
            /\ scheduleList = initScheduler(RingRegistry, 0)
            /\ requestBuffer = [i \in 0..(MAX_REQUESTS - 1) |-> ConsumedRequest]
            /\ discoveryPc = DiscoveryDone
            /\ discoverReturn = [d \in DeviceIds |-> "true"]

\* DataRequestScheduler, lines 393-399: the event of a schedule entry that
\* is due goes to queueEventos_Scheduler (lost when the queue is full); at
\* most max events are sent.
SchedulerEvents(max) ==
    /\ fnOut.events < max
    /\ \E i \in DOMAIN scheduleList :
         queueEventos_Scheduler' =
            QueueSend(queueEventos_Scheduler,
                      [slaveId |-> scheduleList[i].slaveID,
                       sensorID |-> scheduleList[i].sensorID, order |-> 1], QUEUE_LEN)
    /\ fnOut' = [fnOut EXCEPT !.events = @ + 1]
    /\ UNCHANGED <<slaveList, scheduleList, schedulerMutex, requestBuffer, requestHead,
                   requestToken, queueEventos_Peripheral, queueRespuestas,
                   queueSensorDataPayload, mbRequests, discoveryPc, errorPc, now,
                   literalShared, failRun, discoverReturn>>
    /\ UNCHANGED <<apiVars, fnPc, fnIn>>

SchedulerEvent == SchedulerEvents(MaxEvents)

\* EventManager, lines 544-581: one event is taken, the scheduler's queue
\* first, and the request it asks for is handed to MB.addRequest with the
\* next token; the client refuses it when its queue is full.
EventManagerAddRequest ==
    /\ fnOut.em.pc = "loop"
    /\ queueEventos_Scheduler # <<>> \/ queueEventos_Peripheral # <<>>
    /\ LET fromScheduler == queueEventos_Scheduler # <<>>
           event == IF fromScheduler THEN Head(queueEventos_Scheduler)
                                     ELSE Head(queueEventos_Peripheral)
           p == getSensorParams(slaveList, event.slaveId, event.sensorID)
           r == IF fromScheduler
                THEN [sent |-> p.found, addr |-> p.startAddr, qty |-> p.numRegs]
                ELSE PeripheralRequest(event)
           reqType == IF ~fromScheduler THEN "REQUEST_DISCOVERY"
                      ELSE IF p.found THEN "REQUEST_SAMPLING" ELSE "REQUEST_UNKNOWN"
           accepted == r.sent /\ Len(mbRequests) < MaxPending
       IN  /\ requestToken' = IF r.sent THEN NextToken(requestToken) ELSE requestToken
           /\ mbRequests' =
                IF accepted
                THEN Append(mbRequests,
                            [token |-> requestToken', slaveId |-> event.slaveId,
                             addr |-> r.addr, qty |-> r.qty, type |-> reqType])
                ELSE mbRequests
           /\ queueEventos_Scheduler' = IF fromScheduler THEN Tail(queueEventos_Scheduler)
                                                         ELSE queueEventos_Scheduler
           /\ queueEventos_Peripheral' = IF fromScheduler THEN queueEventos_Peripheral
                                                          ELSE Tail(queueEventos_Peripheral)
           /\ fnOut' = [fnOut EXCEPT !.em =
                          [pc |-> "addRequest", event |-> event, requestSent |-> r.sent,
                           functionCode |-> IF r.sent THEN 3 ELSE 0,
                           err |-> IF r.sent /\ ~accepted THEN "REQUEST_QUEUE_FULL"
                                                          ELSE "SUCCESS",
                           reqType |-> reqType]]
    /\ UNCHANGED <<slaveList, scheduleList, schedulerMutex, requestBuffer, requestHead,
                   queueRespuestas, queueSensorDataPayload, discoveryPc, errorPc, now,
                   literalShared, failRun, discoverReturn>>
    /\ UNCHANGED <<apiVars, fnPc, fnIn>>

\* EventManager, lines 583-589: the context of an accepted request is
\* written to the ring, then vTaskDelay(10 ms).
EventManagerRecord ==
    /\ fnOut.em.pc = "addRequest"
    /\ IF fnOut.em.requestSent /\ fnOut.em.err = "SUCCESS"
       THEN /\ requestBuffer' =
                 RingAdd(requestBuffer, requestHead,
                         [token |-> requestToken, slaveId |-> fnOut.em.event.slaveId,
                          sensorId |-> fnOut.em.event.sensorID,
                          functionCode |-> fnOut.em.functionCode,
                          type |-> fnOut.em.reqType])
            /\ requestHead' = (requestHead + 1) % MAX_REQUESTS
       ELSE UNCHANGED <<requestBuffer, requestHead>>
    /\ fnOut' = [fnOut EXCEPT !.em = EventManagerLocals]
    /\ UNCHANGED <<slaveList, scheduleList, schedulerMutex, requestToken,
                   queueEventos_Peripheral, queueEventos_Scheduler, queueRespuestas,
                   queueSensorDataPayload, mbRequests, discoveryPc, errorPc, now,
                   literalShared, failRun, discoverReturn>>
    /\ UNCHANGED <<apiVars, fnPc, fnIn>>

\* a scheduling in which DataFormatter runs at any time
LowerPriorityRuns_Always == TRUE

\* setup(), lines 1256-1259: EventManager (priority 4) and DataFormatter
\* (priority 2) are pinned to core 0, so DataFormatter runs only while
\* EventManager is blocked, which it is in vTaskDelay (line 589) and nowhere
\* between MB.addRequest and addRequest.
LowerPriorityRuns == fnOut.em.pc = "loop"

\* DataFormatter, one response processed.
RingDataFormatter == LowerPriorityRuns /\ DataFormatter

\* The transport calls handleData for its oldest request and keeps the
\* request: it will answer it once more.
MbDataAgain ==
    /\ mbRequests # <<>>
    /\ errorPc = NotWaiting
    /\ Head(mbRequests).slaveId <= BusDevices
    /\ fnOut.repeats < MaxRepeats
    /\ queueRespuestas' = QueueSend(queueRespuestas, handleData(Head(mbRequests)), QUEUE_LEN)
    /\ fnOut' = [fnOut EXCEPT !.repeats = @ + 1,
                              !.repeated = @ \cup {Head(mbRequests).token}]
    /\ UNCHANGED <<slaveList, scheduleList, schedulerMutex, requestBuffer, requestHead,
                   requestToken, queueEventos_Peripheral, queueEventos_Scheduler,
                   queueSensorDataPayload, mbRequests, discoveryPc, errorPc, now,
                   literalShared, failRun, discoverReturn>>
    /\ UNCHANGED <<apiVars, fnPc, fnIn>>

\* The transport calls handleError for its oldest request and keeps the
\* request: it will answer it once more.
MbErrorAgain ==
    /\ mbRequests # <<>>
    /\ errorPc = NotWaiting
    /\ fnOut.repeats < MaxRepeats
    /\ \E error \in MbErrors(Head(mbRequests).slaveId) :
         handleError(Head(mbRequests), error)
    /\ fnOut' = [fnOut EXCEPT !.repeats = @ + 1,
                              !.repeated = @ \cup {Head(mbRequests).token}]
    /\ UNCHANGED <<schedulerMutex, requestHead, requestToken, queueEventos_Peripheral,
                   queueEventos_Scheduler, queueRespuestas, queueSensorDataPayload,
                   mbRequests, discoveryPc, now, literalShared, discoverReturn>>
    /\ UNCHANGED <<apiVars, fnPc, fnIn>>

NextRing ==
    \/ DiscoverDevice
    \/ DiscoveryInitScheduler
    \/ SchedulerEvent
    \/ EventManagerAddRequest
    \/ EventManagerRecord
    \/ MbData
    \/ MbError
    \/ MbDataAgain
    \/ MbErrorAgain
    \/ RingDataFormatter

SpecRing == InitRing /\ [][NextRing]_vars

Slots == 0..(MAX_REQUESTS - 1)

\* the slots this step invalidates
Consumed == { i \in Slots : requestBuffer[i].token # 0 /\ requestBuffer'[i].token = 0 }

\* C34: the context recorded for a request has a non-zero token, also when
\* the uint32_t counter wraps; no request or response in flight carries
\* token 0; and the response path treats no slot with token 0 as a live
\* request: a step that sets a token to 0 found it non-zero, and the
\* registry and the sample queue change only in a step that consumes a slot
\* with a non-zero token.
C34_LiveTokenNonZero ==
    [][/\ requestHead' # requestHead => requestBuffer'[requestHead].token # 0
       /\ \A i \in DOMAIN mbRequests' : mbRequests'[i].token # 0
       /\ \A i \in DOMAIN queueRespuestas' : queueRespuestas'[i].order # 0
       /\ \A i \in Slots :
            (requestBuffer'[i] # requestBuffer[i] /\ requestBuffer'[i].token = 0)
                => requestBuffer[i].token # 0
       /\ (slaveList' # slaveList \/ queueSensorDataPayload' # queueSensorDataPayload)
                => Consumed # {}]_vars

\* The counter has wrapped: the request recorded after token 0xFFFFFFFF has
\* token 1, it is in flight, and the other slots are consumed ones.
C34_Witness ==
    /\ requestToken = 1
    /\ requestBuffer[0].token = 1
    /\ requestBuffer[1] = ConsumedRequest
    /\ \E i \in DOMAIN mbRequests : mbRequests[i].token = 1

\* the slots holding token
SlotsOf(token) == { i \in Slots : requestBuffer[i].token = token }

\* C35: the DataFormatter processes a response only if the ring holds an
\* entry with the response's non-zero token, and then sets that token to 0;
\* handleError changes the registry only for a token the ring holds, and
\* sets it to 0 (an error step is one in which the transport answers its
\* oldest request and queues no response).  A response or error whose token
\* the ring no longer holds changes neither the registry (devices, sensors,
\* failure counters) nor the schedule nor the sample queue.
C35_ProcessedOnce ==
    [][/\ (queueRespuestas # <<>> /\ queueRespuestas' = Tail(queueRespuestas)) =>
            LET token == Head(queueRespuestas).order
            IN  IF token # 0 /\ SlotsOf(token) # {}
                THEN \E i \in SlotsOf(token) : requestBuffer'[i].token = 0
                ELSE UNCHANGED <<slaveList, scheduleList, queueSensorDataPayload,
                                 requestBuffer>>
       /\ (mbRequests # <<>> /\ queueRespuestas' = queueRespuestas
             /\ (mbRequests' = Tail(mbRequests) \/ fnOut'.repeats # fnOut.repeats)) =>
            LET token == Head(mbRequests).token
            IN  IF SlotsOf(token) # {}
                THEN slaveList' # slaveList =>
                        \E i \in SlotsOf(token) : requestBuffer'[i].token = 0
                ELSE UNCHANGED <<slaveList, scheduleList, queueSensorDataPayload,
                                 requestBuffer>>]_vars

\* The transport answered a sampling request twice: both responses are
\* processed and there is one sample.
C35_Witness ==
    /\ fnOut.repeated = {requestToken}
    /\ fnOut.events = 1
    /\ mbRequests = <<>>
    /\ queueRespuestas = <<>>
    /\ fnOut.em.pc = "loop"
    /\ Len(queueSensorDataPayload) = 1
    /\ SlotsOf(requestToken) = {}

\* A timeout was reported twice for one request of a registered device: it
\* is counted once.
C35_WitnessError ==
    /\ fnOut.repeated = {requestToken}
    /\ fnOut.events = 1
    /\ mbRequests = <<>>
    /\ queueRespuestas = <<>>
    /\ SlotsOf(requestToken) = {}
    /\ \E i \in DOMAIN slaveList : slaveList[i].consecutiveFails = 1

\* the tokens EventManager has made after token (0 is skipped at the wrap)
TokensSince(token) ==
    IF (token < 0) = (requestToken < 0) THEN requestToken - token
                                        ELSE requestToken - token - 1

\* C39: when the DataFormatter looks up the response the transport delivered
\* for a request it accepted (a response the transport did not repeat), the
\* ring holds the context of that request, whatever the order of
\* EventManager's two steps, the callback and the DataFormatter, as long as
\* fewer than 16 newer requests were made since.
C39_ContextFound ==
    [][(/\ queueRespuestas # <<>>
        /\ queueRespuestas' = Tail(queueRespuestas)
        /\ Head(queueRespuestas).order \notin fnOut.repeated
        /\ TokensSince(Head(queueRespuestas).order) < MAX_REQUESTS)
          => \E i \in SlotsOf(Head(queueRespuestas).order) :
                /\ requestBuffer[i].slaveId = Head(queueRespuestas).deviceId
                /\ requestBuffer'[i].token = 0]_vars

\* The response of a request is in queueRespuestas before EventManager has
\* written the request's context to the ring.
C39_Witness ==
    /\ fnOut.em.pc = "addRequest"
    /\ fnOut.em.requestSent
    /\ fnOut.em.err = "SUCCESS"
    /\ SlotsOf(requestToken) = {}
    /\ fnOut.repeated = {}
    /\ \E i \in DOMAIN queueRespuestas : queueRespuestas[i].order = requestToken

(***************************************************************************)
(* The same tasks from a state in which a device is about to be evicted:   *)
(* device 1 has timed out twice.                                           *)
(***************************************************************************)
\* sampling events the scheduler sends from that state on
MaxStaleEvents == 2

\* the contexts of the requests made so far, all consumed: the discovery
\* reads of the three devices, then two samplings of devices 1 and 2 each
StaleRing ==
    [i \in Slots |->
        IF i < 3 THEN [token |-> 0, slaveId |-> dispositivosAConsultar[i + 1],
                       sensorId |-> 0, functionCode |-> 3, type |-> "REQUEST_DISCOVERY"]
        ELSE IF i < 7 THEN [token |-> 0, slaveId |-> 1 + ((i - 3) % 2),
                            sensorId |-> (i - 3) % 2, functionCode |-> 3,
                            type |-> "REQUEST_SAMPLING"]
        ELSE ZeroRequest]

InitStale ==
    /\ InitApi
    /\ literalShared = TRUE
    /\ fnPc = "tasks"
    /\ fnIn = <<>>
    /\ fnOut = [em |-> EventManagerLocals, events |-> 0, repeats |-> 0, repeated |-> {}]
    /\ slaveList = [RingRegistry EXCEPT ![1].consecutiveFails = 2]
    /\ scheduleList = initScheduler(RingRegistry, 0)
    /\ schedulerMutex = "free"
    /\ requestBuffer = StaleRing
    /\ requestHead = 7
    /\ requestToken = 7
    /\ queueEventos_Peripheral = <<>>
    /\ queueEventos_Scheduler = <<>>
    /\ queueRespuestas = <<>>
    /\ queueSensorDataPayload = <<>>
    /\ mbRequests = <<>>
    /\ discoveryPc = DiscoveryDone
    /\ errorPc = NotWaiting
    /\ now = 0
    /\ failRun = [d \in DeviceIds |-> IF d = 1 THEN 2 ELSE 0]
    /\ discoverReturn = [d \in DeviceIds |-> "true"]

StaleSchedulerEvent == SchedulerEvents(MaxStaleEvents)

NextStale ==
    \/ StaleSchedulerEvent
    \/ EventManagerAddRequest
    \/ EventManagerRecord
    \/ MbData
    \/ MbError
    \/ RingDataFormatter

SpecStale == InitStale /\ [][NextStale]_vars

\* the context the ring holds for the response at the head of queueRespuestas
HeadContext ==
    requestBuffer[findRequestByToken(requestBuffer, Head(queueRespuestas).order)]

\* C36: a pair that is no longer in the registry is harmless.  When
\* EventManager takes a scheduler event of such a pair it submits no request
\* (no token is made, the transport gets nothing, the ring is not written);
\* when the DataFormatter processes a sampling response of such a pair no
\* sample is queued; both leave the registry and the schedule as they are.
C36_StaleIsHarmless ==
    [][/\ (/\ fnOut.em.pc = "loop"
           /\ fnOut'.em.pc = "addRequest"
           /\ queueEventos_Scheduler # <<>>
           /\ ~InRegistry(Head(queueEventos_Scheduler).slaveId,
                          Head(queueEventos_Scheduler).sensorID))
            => /\ UNCHANGED <<mbRequests, requestToken, slaveList, scheduleList>>
               /\ ~fnOut'.em.requestSent
       /\ (fnOut.em.pc = "addRequest" /\ ~fnOut.em.requestSent /\ fnOut'.em.pc = "loop")
            => UNCHANGED <<requestBuffer, requestHead, slaveList, scheduleList>>
       /\ (/\ queueRespuestas # <<>>
           /\ queueRespuestas' = Tail(queueRespuestas)
           /\ SlotsOf(Head(queueRespuestas).order) # {}
           /\ HeadContext.type = "REQUEST_SAMPLING"
           /\ ~InRegistry(HeadContext.slaveId, HeadContext.sensorId))
            => UNCHANGED <<queueSensorDataPayload, slaveList, scheduleList>>]_vars

\* EventManager has taken the event of device 1's sensor after device 1 was
\* evicted, and has sent nothing.
C36_Witness ==
    /\ ~Registered(slaveList, 1)
    /\ ~Scheduled(1)
    /\ fnOut.em.pc = "addRequest"
    /\ fnOut.em.event.slaveId = 1
    /\ ~fnOut.em.requestSent
    /\ mbRequests = <<>>

\* Device 1 answered a sampling request after its eviction and the
\* DataFormatter has processed the response: there is no sample.
C36_WitnessResponse ==
    /\ ~Registered(slaveList, 1)
    /\ failRun[1] = 0
    /\ queueRespuestas = <<>>
    /\ mbRequests = <<>>
    /\ queueSensorDataPayload = <<>>
    /\ \A i \in Slots : requestBuffer[i].token = 0

(***************************************************************************)
(* Claims about the completion signal and the response channel of the      *)
(* request bridge (Part A).                                                *)
(***************************************************************************)
\* a transport callback runs: the oldest request of the transport is answered
CallbackStep == mbQueue # <<>> /\ mbQueue' = Tail(mbQueue)

\* C37: no transport callback gives a completion signal that has been
\* deleted: whenever a callback runs, the call its request belongs to is
\* still waiting on the semaphore the token names.
C37_NoGiveAfterDelete ==
    [][CallbackStep =>
          /\ Head(mbQueue).from = "this"
          /\ apiPc = "waiting"
          /\ completion_sem = Head(mbQueue).token
          /\ sems[Head(mbQueue).token] # "free"]_vars

\* C38, the channel: a delivering callback never finds queueApiResponses full.
C38_ChannelNeverFull ==
    [][CallbackStep => Len(queueApiResponses) < RespQueueLen]_vars

\* C38, the result: a call woken by its semaphore finds a result in the
\* channel, and what it returns is never left unset.
C38_ResultWhenWoken ==
    /\ (apiPc = "waiting" /\ sems[completion_sem] = "given") => queueApiResponses # <<>>
    /\ (apiPc = "returned" /\ exitPath = "signalled") => result.error_code # "UNSET"

(***************************************************************************)
(* initScheduler followed by the loop of DataRequestScheduler: the times   *)
(* at which the entry of one sensor is dispatched.                         *)
(***************************************************************************)
\* passes of the scheduler's loop
MaxPasses == 3

\* fnIn: the drawn descriptor, the schedule initScheduler built from it at
\* time 0 and millis().  fnOut: the times of the passes that sent the
\* entry's event, in order.
InitDispatch ==
    /\ InitRest
    /\ fnPc = "initScheduler"
    /\ fnOut = [times |-> <<>>, passes |-> 0]
    /\ \E input \in IntervalInputs :
         /\ input.now = 0
         /\ fnIn = [sensor |-> input.slaves[1].sensors[1],
                    scheduleList |-> initScheduler(input.slaves, input.now),
                    millis |-> input.now]

\* One turn of the while loop (lines 384-425) with EventManager keeping the
\* event queue drained: the pass at the time read at the top, the second
\* reading of millis() lag ms later, the sleep.
DispatchPass ==
    /\ fnOut.passes < MaxPasses
    /\ \E lag \in 0..MaxLag :
         LET scan == SchedulerScan(fnIn.scheduleList, 1, fnIn.millis, <<>>)
             sleepTime == SleepTime(scan.list, fnIn.millis + lag)
         IN  /\ fnOut' = [times |-> IF scan.queue # <<>>
                                    THEN Append(fnOut.times, fnIn.millis)
                                    ELSE fnOut.times,
                          passes |-> fnOut.passes + 1]
             /\ fnIn' = [fnIn EXCEPT !.scheduleList = scan.list,
                                     !.millis = fnIn.millis + lag + sleepTime]
    /\ fnPc' = "DataRequestScheduler"
    /\ UNCHANGED <<apiVars, mainVars>>

NextDispatch == DispatchPass

SpecDispatch == InitDispatch /\ [][NextDispatch]_vars

\* C40: for a sensor with baseSamplingIntervalMs > 0, two consecutive
\* dispatches of its schedule entry are at least baseSamplingIntervalMs
\* milliseconds apart.
C40_DispatchSpacing ==
    (fnPc = "DataRequestScheduler" /\ fnIn.sensor.samplingInterval > 0) =>
        \A i \in 2..Len(fnOut.times) :
            fnOut.times[i] - fnOut.times[i - 1] >= fnIn.sensor.samplingInterval

====
